---- MODULE Spec2Model ----
(***************************************************************************)
(* A model of the pci_types crate: the PciAddress codec, the header-type   *)
(* dispatch, the BAR decoder/sizer, the capability chain walker and the    *)
(* MSI capability.                                                         *)
(*                                                                         *)
(* Machine words.  A u8/u16/u32/u64 value is modelled as the set of the    *)
(* positions of its one bits (bit 0 is the least significant), because a   *)
(* 32-bit register value such as 0xfffffff0 does not fit TLC's integers.   *)
(* Small quantities (offsets, slots, capability IDs, fields of at most 16  *)
(* bits) are integers; FromNat and ToNat convert.                          *)
(***************************************************************************)
EXTENDS Integers, Sequences, FiniteSets, TLC

VARIABLES
    regs,     \* configuration space: offset -> dword currently held
    wmask,    \* hardware: offset -> the bits of that dword a write can change
    op,       \* the last operation called: its name, arguments and result
    trace,    \* the accesses (read/write, offset, value) that operation issued
    addr,     \* the PciAddress value under test (packed u32)
    iter,     \* CapabilityIterator: its offset field, where next() stands, and
              \* (history) the start offset and the entries read once / again
    yielded,  \* the items the iterator has returned so far, in order
    msi,      \* the MsiCapability or MsixCapability under test
    peer      \* another actor on the same function: its last access

vars == <<regs, wmask, op, trace, addr, iter, yielded, msi, peer>>

(***************************************************************************)
(* Words as bit sets                                                       *)
(***************************************************************************)
Pow2[n \in 0..16] == IF n = 0 THEN 1 ELSE 2 * Pow2[n - 1]

\* The word holding the low `width` bits of the natural number n (n < 2^16).
FromNat(n, width) == {i \in 0..(width - 1) : i <= 16 /\ (n \div Pow2[i]) % 2 = 1}

RECURSIVE SumBits(_)
SumBits(w) == IF w = {} THEN 0
              ELSE LET i == CHOOSE j \in w : TRUE IN Pow2[i] + SumBits(w \ {i})

\* The natural number a word of at most 16 significant bits stands for.
ToNat(w) == SumBits(w)

MinOf(S) == CHOOSE x \in S : \A y \in S : x <= y

\* The outcome of a call that panics instead of returning a word.
Panic == {-1}

\* `x as uN`: keep the low N bits.
truncate(w, width) == w \cap (0..(width - 1))

\* BitField::get_bit
get_bit(w, i) == i \in w

\* BitField::get_bits(lo..hi): the bits lo..hi-1, shifted down to bit 0.
get_bits(w, lo, hi) == {i - lo : i \in w \cap (lo..(hi - 1))}

\* A faulty set_bits: a value wider than the range is cut to the range.
set_bits_truncating(w, lo, hi, v) ==
    IF w = Panic THEN Panic
    ELSE (w \ (lo..(hi - 1))) \cup {i + lo : i \in v \cap (0..(hi - lo - 1))}

\* BitField::set_bits(lo..hi, v): asserts that v fits into hi-lo bits
\* ("value does not fit into bit range"), then replaces bits lo..hi-1 by v.
set_bits(w, lo, hi, v) ==
    IF w = Panic THEN Panic
    ELSE IF ~(v \subseteq 0..(hi - lo - 1)) THEN Panic
    ELSE (w \ (lo..(hi - 1))) \cup {i + lo : i \in v}

\* BitField::set_bit
set_bit(w, i, b) == IF b THEN w \cup {i} ELSE w \ {i}

\* u32::trailing_zeros / u64::trailing_zeros: the width for the zero word.
trailing_zeros(w, width) == IF w = {} THEN width ELSE MinOf(w)

\* `w << n` on a word of the given width (n < width).
shl(w, n, width) == {i + n : i \in w} \cap (0..(width - 1))

(***************************************************************************)
(* PciAddress (lib.rs)                                                     *)
(***************************************************************************)
\* Representative inputs; device and function include out-of-range values.
Segments  == {0, 1, 32768, 65535}
Buses     == {0, 1, 128, 255}
Devices   == 0..31
Functions == 0..7
BadDevices   == {32, 33, 255}
BadFunctions == {8, 9, 255}

\* A faulty new: the bus field starts one bit too low, over the device field.
PciAddress_new_overlap(seg, b, dev, fn) ==
    LET r0 == {}
        r1 == set_bits(r0, 0, 3, FromNat(fn, 8))
        r2 == set_bits(r1, 3, 8, FromNat(dev, 8))
        r3 == set_bits(r2, 7, 15, FromNat(b, 8))
        r4 == set_bits(r3, 16, 32, FromNat(seg, 16))
    IN r4

\* PciAddress::new
PciAddress_new(seg, b, dev, fn) ==
    LET r0 == {}
        r1 == set_bits(r0, 0, 3, FromNat(fn, 8))
        r2 == set_bits(r1, 3, 8, FromNat(dev, 8))
        r3 == set_bits(r2, 8, 16, FromNat(b, 8))
        r4 == set_bits(r3, 16, 32, FromNat(seg, 16))
    IN r4

\* PciAddress::segment, bus, device, function
segment(a)  == ToNat(truncate(get_bits(a, 16, 32), 16))
bus(a)      == ToNat(truncate(get_bits(a, 8, 16), 8))
device(a)   == ToNat(truncate(get_bits(a, 3, 8), 8))
function(a) == ToNat(truncate(get_bits(a, 0, 3), 8))

\* No address constructed yet.
NoAddr == {-2}

\* The parts of the state an address behaviour leaves alone.
AddrFrame ==
    /\ regs = <<>> /\ wmask = <<>> /\ trace = <<>>
    /\ iter = <<>> /\ yielded = <<>> /\ msi = <<>> /\ peer = <<>>

\* The caller has chosen the four arguments and has not yet called new.
InitAddr ==
    /\ AddrFrame
    /\ addr = NoAddr
    /\ \E seg \in Segments, b \in Buses, dev \in Devices \cup BadDevices,
          fn \in Functions \cup BadFunctions :
          op = [name |-> "args", segment |-> seg, bus |-> b, device |-> dev,
                function |-> fn, status |-> "pending", ret |-> 0]

UnchangedAddrFrame == UNCHANGED <<regs, wmask, trace, iter, yielded, msi, peer>>

\* The call PciAddress::new(segment, bus, device, function) on the arguments.
New ==
    LET a == PciAddress_new(op.segment, op.bus, op.device, op.function) IN
    /\ op.name = "args"
    /\ op' = [op EXCEPT !.name = "new",
                        !.status = IF a = Panic THEN "panic" ELSE "ok"]
    /\ addr' = a
    /\ UnchangedAddrFrame

\* The four getters, applied to the address constructed.
Getter(name) ==
    /\ op.status = "ok"
    /\ op' = [op EXCEPT !.name = name,
                        !.ret = CASE name = "segment"  -> segment(addr)
                                  [] name = "bus"      -> bus(addr)
                                  [] name = "device"   -> device(addr)
                                  [] name = "function" -> function(addr)]
    /\ UNCHANGED addr
    /\ UnchangedAddrFrame

NextAddr ==
    \/ New
    \/ \E name \in {"segment", "bus", "device", "function"} : Getter(name)

SpecAddr == InitAddr /\ [][NextAddr]_vars

(***************************************************************************)
(* Configuration space access (trait ConfigRegionAccess)                   *)
(*                                                                         *)
(* The access object is supplied by the caller.  Its registers are         *)
(* modelled as hardware registers: a write changes the bits wmask marks    *)
(* writable and leaves the hard-wired bits alone; a read returns what the  *)
(* register holds.  wmask = all ones is a register that stores whatever    *)
(* is written (a memory cell); wmask = {} is a read-only register.         *)
(***************************************************************************)
Rd(off, v) == <<"r", off, v>>
Wr(off, v) == <<"w", off, v>>

\* ConfigRegionAccess::read
HwRead(r, off) == r[off]

\* ConfigRegionAccess::write
HwWrite(r, off, v) ==
    [r EXCEPT ![off] = (v \cap wmask[off]) \cup (r[off] \ wmask[off])]

(***************************************************************************)
(* EndpointHeader::bar and write_bar (lib.rs)                              *)
(***************************************************************************)
MAX_BARS == 6

None == [kind |-> "None"]
Panicked == [kind |-> "Panic"]

\* `1 << n` where the shift amount may reach the width of the type: with
\* overflow checks (debug builds) the program panics, without them (release
\* builds) the shift amount wraps modulo the width.
checked_shl(w, n, width, overflow_checks) ==
    IF n < width THEN shl(w, n, width)
    ELSE IF overflow_checks THEN Panic
    ELSE shl(w, n % width, width)

\* `x as u64` for an i32 x: sign extension.
i32_as_u64(w) == IF 31 \in w THEN w \cup (32..63) ELSE w

\* A faulty probe: the register is left holding the size mask.
probe32_norestore(r, offset, address) ==
    LET r1 == HwWrite(r, offset, 4..31)
        readback == HwRead(r1, offset)
    IN [regs |-> r1, readback |-> readback,
        trace |-> <<Wr(offset, 4..31), Rd(offset, readback)>>]

\* lib.rs 324-326: write 0xfffffff0, read back, write the address back.
probe32(r, offset, address) ==
    LET r1 == HwWrite(r, offset, 4..31)
        readback == HwRead(r1, offset)
        r2 == HwWrite(r1, offset, address)
    IN [regs |-> r2, readback |-> readback,
        trace |-> <<Wr(offset, 4..31), Rd(offset, readback), Wr(offset, address)>>]

\* lib.rs 335-336: clear bits 0..4 of the readback, size = 1u32 << trailing_zeros.
size32(readback, overflow_checks) ==
    LET masked == set_bits(readback, 0, 4, {})
    IN checked_shl({0}, trailing_zeros(masked, 32), 32, overflow_checks)

\* lib.rs 352-357: probe both words, then write both original words back.
probe64(r, offset, address, address_upper) ==
    LET r1 == HwWrite(r, offset, 4..31)
        r2 == HwWrite(r1, offset + 4, 0..31)
        readback_low == HwRead(r2, offset)
        readback_high == HwRead(r2, offset + 4)
        r3 == HwWrite(r2, offset, address)
        r4 == HwWrite(r3, offset + 4, address_upper)
    IN [regs |-> r4, readback_low |-> readback_low, readback_high |-> readback_high,
        trace |-> <<Wr(offset, 4..31), Wr(offset + 4, 0..31),
                    Rd(offset, readback_low), Rd(offset + 4, readback_high),
                    Wr(offset, address), Wr(offset + 4, address_upper)>>]

\* lib.rs 362-367.  In `(1 << readback_low.trailing_zeros()) as u64` the
\* literal 1 has no type but the default, i32: the shift is an i32 shift and
\* the cast sign-extends.  The other branch shifts a u64.
size64(readback_low, readback_high, overflow_checks) ==
    LET masked == set_bits(readback_low, 0, 4, {})
    IN IF masked # {}
       THEN i32_as_u64(checked_shl({0}, trailing_zeros(masked, 32), 32, overflow_checks))
       ELSE checked_shl({0}, trailing_zeros(readback_high, 32) + 32, 64, overflow_checks)

\* A faulty guard: the 64-bit arm never looks at the slot number.
last_slot_unguarded(slot) == FALSE

\* lib.rs 345: a 64-bit BAR in the last slot has no second slot.
last_slot(slot) == slot >= 5

\* lib.rs 323-338: the Memory32 arm.
bar_memory32(r, offset, bar, t0, overflow_checks) ==
    LET prefetchable == get_bit(bar, 3)
        address == shl(get_bits(bar, 4, 32), 4, 32)
        p == probe32(r, offset, address)
        size == size32(p.readback, overflow_checks)
    IN [regs |-> p.regs, trace |-> t0 \o p.trace,
        ret |-> IF p.readback = {} THEN None
                ELSE IF size = Panic THEN Panicked
                ELSE [kind |-> "Memory32", address |-> address, size |-> size,
                      prefetchable |-> prefetchable]]

\* lib.rs 341-378: the Memory64 arm.
bar_memory64(r, slot, offset, bar, t0, overflow_checks) ==
    IF last_slot(slot) THEN [regs |-> r, trace |-> t0, ret |-> None]
    ELSE
    LET prefetchable == get_bit(bar, 3)
        address == shl(get_bits(bar, 4, 32), 4, 32)
        address_upper == HwRead(r, offset + 4)
        p == probe64(r, offset, address, address_upper)
        size == size64(p.readback_low, p.readback_high, overflow_checks)
        address64 == set_bits(address, 32, 64, address_upper)
    IN [regs |-> p.regs,
        trace |-> t0 \o <<Rd(offset + 4, address_upper)>> \o p.trace,
        ret |-> IF size = Panic THEN Panicked
                ELSE [kind |-> "Memory64", address |-> address64, size |-> size,
                      prefetchable |-> prefetchable]]

\* A faulty bar: a reserved memory type is decoded as a 32-bit BAR.
bar_reserved_as_32bit(r, slot, overflow_checks) ==
    IF slot >= MAX_BARS THEN [regs |-> r, trace |-> <<>>, ret |-> None]
    ELSE
    LET offset == 16 + slot * 4
        b == HwRead(r, offset)
        t0 == <<Rd(offset, b)>>
        width == ToNat(get_bits(b, 1, 3))
    IN IF ~get_bit(b, 0)
       THEN CASE width = 2 -> bar_memory64(r, slot, offset, b, t0, overflow_checks)
              [] OTHER -> bar_memory32(r, offset, b, t0, overflow_checks)
       ELSE [regs |-> r, trace |-> t0,
             ret |-> [kind |-> "Io", port |-> shl(get_bits(b, 2, 32), 2, 32)]]

\* EndpointHeader::bar: the registers after the call, the accesses issued and
\* the value returned (None, a Bar, or a panic).
bar(r, slot, overflow_checks) ==
    IF slot >= MAX_BARS THEN [regs |-> r, trace |-> <<>>, ret |-> None]
    ELSE
    LET offset == 16 + slot * 4
        b == HwRead(r, offset)
        t0 == <<Rd(offset, b)>>
        width == ToNat(get_bits(b, 1, 3))
    IN IF ~get_bit(b, 0)
       THEN CASE width = 0 -> bar_memory32(r, offset, b, t0, overflow_checks)
              [] width = 2 -> bar_memory64(r, slot, offset, b, t0, overflow_checks)
              [] OTHER -> [regs |-> r, trace |-> t0, ret |-> Panicked]
       ELSE [regs |-> r, trace |-> t0,
             ret |-> [kind |-> "Io", port |-> shl(get_bits(b, 2, 32), 2, 32)]]

\* A faulty range check: only values of more than 33 bits are refused.
exceeds_u32_lax(value) == value \cap (33..63) # {}

\* lib.rs 410: value > u32::MAX as usize (usize is 64 bits wide).
exceeds_u32(value) == value \cap (32..63) # {}

\* A faulty write: a 64-bit slot gets only its low word written.
write_bar_low_word_only(r, slot, value, overflow_checks) ==
    LET b == bar(r, slot, overflow_checks)
        offset == 16 + slot * 4
    IN CASE b.ret.kind = "Panic" -> b
         [] b.ret.kind \in {"Memory64", "Memory32", "Io"} ->
              IF b.ret.kind # "Memory64" /\ exceeds_u32(value)
              THEN [regs |-> b.regs, trace |-> b.trace,
                    ret |-> [kind |-> "Err", error |-> "InvalidValue"]]
              ELSE [regs |-> HwWrite(b.regs, offset, truncate(value, 32)),
                    trace |-> b.trace \o <<Wr(offset, truncate(value, 32))>>,
                    ret |-> [kind |-> "Ok"]]
         [] b.ret.kind = "None" ->
              [regs |-> b.regs, trace |-> b.trace,
               ret |-> [kind |-> "Err", error |-> "NoSuchBar"]]

\* EndpointHeader::write_bar
write_bar(r, slot, value, overflow_checks) ==
    LET b == bar(r, slot, overflow_checks)
        offset == 16 + slot * 4
    IN CASE b.ret.kind = "Panic" -> b
         [] b.ret.kind = "Memory64" ->
              LET lo == truncate(get_bits(value, 0, 32), 32)
                  hi == truncate(get_bits(value, 32, 64), 32)
              IN [regs |-> HwWrite(HwWrite(b.regs, offset, lo), offset + 4, hi),
                  trace |-> b.trace \o <<Wr(offset, lo), Wr(offset + 4, hi)>>,
                  ret |-> [kind |-> "Ok"]]
         [] b.ret.kind \in {"Memory32", "Io"} ->
              IF exceeds_u32(value)
              THEN [regs |-> b.regs, trace |-> b.trace,
                    ret |-> [kind |-> "Err", error |-> "InvalidValue"]]
              ELSE [regs |-> HwWrite(b.regs, offset, truncate(value, 32)),
                    trace |-> b.trace \o <<Wr(offset, truncate(value, 32))>>,
                    ret |-> [kind |-> "Ok"]]
         [] b.ret.kind = "None" ->
              [regs |-> b.regs, trace |-> b.trace,
               ret |-> [kind |-> "Err", error |-> "NoSuchBar"]]

(***************************************************************************)
(* The BAR state machine                                                   *)
(***************************************************************************)
\* The six BAR registers 0x10..0x24 and the register after them, 0x28.
BarRegs == {16 + 4 * i : i \in 0..MAX_BARS}

\* The registers a device may have in a BAR slot: the value held and the
\* writable bits.
BarKinds ==
    { [val |-> {},          wm |-> {}],        \* unimplemented, hard-wired 0
      [val |-> {16},        wm |-> 4..31],     \* 32-bit memory, 16 bytes
      [val |-> {3, 20},     wm |-> 12..31],    \* 32-bit prefetchable, 4 KiB
      [val |-> {3},         wm |-> {}],        \* prefetch flag, no address bits
      [val |-> {3, 16},     wm |-> 0..31],     \* memory cell holding a 32-bit BAR
      [val |-> {2, 24},     wm |-> 20..31],    \* 64-bit memory, 1 MiB, low word
      [val |-> {2, 3, 31},  wm |-> {31}],      \* 64-bit memory, 2 GiB, low word
      [val |-> {2},         wm |-> {}],        \* 64-bit memory, >= 4 GiB, low word
      [val |-> {2, 20},     wm |-> 0..31],     \* memory cell holding a 64-bit BAR
      [val |-> {0, 8},      wm |-> 2..31],     \* I/O, 4 ports
      [val |-> {1},         wm |-> 4..31],     \* reserved memory type 01
      [val |-> {1, 2},      wm |-> {}],        \* reserved memory type 11
      [val |-> {0, 5},      wm |-> 0..31],     \* memory cell holding an I/O BAR
      [val |-> {4},         wm |-> 1..31] }    \* upper word of an 8 GiB BAR

\* The registers the slot after it may hold: the upper word of a 64-bit BAR
\* (absent, fully writable, of an 8 GiB BAR) or a BAR of its own.
BarUpperKinds ==
    { [val |-> {},          wm |-> {}],
      [val |-> {0, 5},      wm |-> 0..31],
      [val |-> {4},         wm |-> 1..31],
      [val |-> {16},        wm |-> 4..31],
      [val |-> {3, 16},     wm |-> 0..31] }

\* The values a caller passes to write_bar (usize, 64 bits).
BarValues == { {4, 20}, {21, 32} }

BarFrame == addr = NoAddr /\ iter = <<>> /\ yielded = <<>> /\ msi = <<>> /\ peer = <<>>

UnchangedBarFrame == UNCHANGED <<wmask, addr, iter, yielded, msi, peer>>

\* A device with up to two adjacent non-trivial BAR registers; nothing has
\* been called yet.
InitBar ==
    /\ BarFrame
    /\ \E s \in 0..(MAX_BARS - 1), k1 \in BarKinds, k2 \in BarUpperKinds :
          /\ regs = [o \in BarRegs |-> IF o = 16 + 4 * s THEN k1.val
                                       ELSE IF o = 20 + 4 * s THEN k2.val ELSE {}]
          /\ wmask = [o \in BarRegs |-> IF o = 16 + 4 * s THEN k1.wm
                                        ELSE IF o = 20 + 4 * s THEN k2.wm ELSE {}]
    /\ trace = <<>>
    /\ op = [name |-> "none", slot |-> 0, value |-> {}, ret |-> None, pre |-> regs]

\* A call bar(slot, access).
Bar(slot) ==
    \E overflow_checks \in BOOLEAN :
        LET res == bar(regs, slot, overflow_checks) IN
        /\ regs' = res.regs
        /\ trace' = res.trace
        /\ op' = [name |-> "bar", slot |-> slot, value |-> {}, ret |-> res.ret,
                  pre |-> regs]
        /\ UnchangedBarFrame

\* A call write_bar(slot, access, value).
WriteBar(slot, value) ==
    \E overflow_checks \in BOOLEAN :
        LET res == write_bar(regs, slot, value, overflow_checks) IN
        /\ regs' = res.regs
        /\ trace' = res.trace
        /\ op' = [name |-> "write_bar", slot |-> slot, value |-> value,
                  ret |-> res.ret, pre |-> regs]
        /\ UnchangedBarFrame

NextBar ==
    \/ \E slot \in 0..MAX_BARS : Bar(slot)
    \/ \E slot \in 0..MAX_BARS, value \in BarValues : WriteBar(slot, value)

SpecBar == InitBar /\ [][NextBar]_vars

(***************************************************************************)
(* EndpointHeader::bar, access by access, beside another actor             *)
(*                                                                         *)
(* The call is a process: op.pc names the access it issues next, its       *)
(* locals (bar, address_upper, the readbacks) are fields of op.  Between   *)
(* two of its accesses another actor may read or write the same BARs.      *)
(***************************************************************************)
\* A faulty address: the type bits of the raw value are kept.
bar_address_with_type(raw) == raw

\* lib.rs 319: address = bar.get_bits(4..32) << 4
bar_address(raw) == shl(get_bits(raw, 4, 32), 4, 32)

\* lib.rs 329-338: what the Memory32 arm returns.
bar_memory32_ret(raw, readback, overflow_checks) ==
    LET size == size32(readback, overflow_checks)
    IN IF readback = {} THEN None
       ELSE IF size = Panic THEN Panicked
       ELSE [kind |-> "Memory32", address |-> bar_address(raw), size |-> size,
             prefetchable |-> get_bit(raw, 3)]

\* lib.rs 362-376: what the Memory64 arm returns.
bar_memory64_ret(raw, address_upper, readback_low, readback_high, overflow_checks) ==
    LET size == size64(readback_low, readback_high, overflow_checks)
    IN IF size = Panic THEN Panicked
       ELSE [kind |-> "Memory64",
             address |-> set_bits(bar_address(raw), 32, 64, address_upper),
             size |-> size, prefetchable |-> get_bit(raw, 3)]

\* The slot probed, its register and the next one.
ProbeSlot == 0
ProbeOffset == 16 + ProbeSlot * 4
ProbeRegs == {ProbeOffset, ProbeOffset + 4}

\* Devices: the value held and the writable bits of the two registers.
ProbeDevices ==
    { <<[val |-> {16},             wm |-> 4..31],  [val |-> {},     wm |-> {}]>>,
      <<[val |-> {3} \cup (12..31), wm |-> 12..31], [val |-> {},     wm |-> {}]>>,
      <<[val |-> {3, 16},          wm |-> 0..31],  [val |-> {0, 5}, wm |-> 0..31]>>,
      <<[val |-> {2, 24},          wm |-> 20..31], [val |-> {0, 5}, wm |-> 0..31]>>,
      <<[val |-> {2},              wm |-> {}],     [val |-> {4},    wm |-> 1..31]>>,
      <<[val |-> {0, 8},           wm |-> 2..31],  [val |-> {},     wm |-> {}]>>,
      <<[val |-> {},               wm |-> {}],     [val |-> {},     wm |-> {}]>>,
      <<[val |-> {1},              wm |-> 4..31],  [val |-> {},     wm |-> {}]>> }

\* The dwords the other actor writes: an address, and a probe of its own.
PeerValues == { {22, 30}, 4..31 }

NoPeer == [kind |-> "none", off |-> 0, value |-> {}, window |-> FALSE, clean |-> TRUE]

\* The register o has been written by the probe and not yet by the restore.
Window(o) ==
    IF o = ProbeOffset
    THEN op.pc \in {"probe_read", "restore", "probe_write_high", "probe_read_low",
                    "probe_read_high", "restore_low"}
    ELSE op.pc \in {"probe_read_low", "probe_read_high", "restore_low", "restore_high"}

ProbeFrame == addr = NoAddr /\ iter = <<>> /\ yielded = <<>> /\ msi = <<>>

InitProbe ==
    /\ ProbeFrame
    /\ \E d \in ProbeDevices :
          /\ regs = [o \in ProbeRegs |-> IF o = ProbeOffset THEN d[1].val ELSE d[2].val]
          /\ wmask = [o \in ProbeRegs |-> IF o = ProbeOffset THEN d[1].wm ELSE d[2].wm]
    /\ trace = <<>>
    /\ op = [name |-> "none", slot |-> ProbeSlot, pc |-> "idle", raw |-> {},
             upper |-> {}, rb_low |-> {}, rb_high |-> {}, ret |-> None,
             pre |-> regs, dirty |-> {}]
    /\ peer = NoPeer

\* One access of the call: from one position to the next.
ProbeStep(from, to, r2, access, o2) ==
    /\ op.pc = from
    /\ regs' = r2
    /\ trace' = Append(trace, access)
    /\ op' = [o2 EXCEPT !.pc = to]
    /\ UNCHANGED <<wmask, addr, iter, yielded, msi, peer>>

\* bar(slot, access) is called.
ProbeCall ==
    /\ op.pc = "idle"
    /\ op' = [name |-> "bar", slot |-> ProbeSlot, pc |-> "read_raw", raw |-> {},
              upper |-> {}, rb_low |-> {}, rb_high |-> {},
              ret |-> [kind |-> "Pending"], pre |-> regs, dirty |-> {}]
    /\ trace' = <<>>
    /\ peer' = NoPeer
    /\ UNCHANGED <<regs, wmask, addr, iter, yielded, msi>>

\* lib.rs 312-321, 345, 380-383: read the slot and take the arm of its type.
ProbeReadRaw ==
    LET raw == HwRead(regs, ProbeOffset)
        width == ToNat(get_bits(raw, 1, 3))
        o2 == [op EXCEPT !.raw = raw]
        return(v) == ProbeStep("read_raw", "idle", regs, Rd(ProbeOffset, raw),
                               [o2 EXCEPT !.ret = v])
        goto(pc) == ProbeStep("read_raw", pc, regs, Rd(ProbeOffset, raw), o2)
    IN IF get_bit(raw, 0)
       THEN return([kind |-> "Io", port |-> shl(get_bits(raw, 2, 32), 2, 32)])
       ELSE CASE width = 0 -> goto("probe_write")
              [] width = 2 -> IF last_slot(op.slot) THEN return(None)
                              ELSE goto("read_upper")
              [] OTHER -> return(Panicked)

\* lib.rs 324: access.write(offset, 0xfffffff0)
ProbeWrite32 ==
    ProbeStep("probe_write", "probe_read", HwWrite(regs, ProbeOffset, 4..31),
              Wr(ProbeOffset, 4..31), op)

\* lib.rs 325: readback = access.read(offset)
ProbeRead32 ==
    LET readback == HwRead(regs, ProbeOffset) IN
    ProbeStep("probe_read", "restore", regs, Rd(ProbeOffset, readback),
              [op EXCEPT !.rb_low = readback])

\* lib.rs 326-338: access.write(offset, address), then the size and the return.
ProbeRestore32 ==
    \E overflow_checks \in BOOLEAN :
        ProbeStep("restore", "idle", HwWrite(regs, ProbeOffset, bar_address(op.raw)),
                  Wr(ProbeOffset, bar_address(op.raw)),
                  [op EXCEPT !.ret = bar_memory32_ret(op.raw, op.rb_low, overflow_checks)])

\* lib.rs 349: address_upper = access.read(offset + 4)
ProbeReadUpper ==
    LET upper == HwRead(regs, ProbeOffset + 4) IN
    ProbeStep("read_upper", "probe_write_low", regs, Rd(ProbeOffset + 4, upper),
              [op EXCEPT !.upper = upper])

\* lib.rs 352-353: the two probe writes.
ProbeWriteLow ==
    ProbeStep("probe_write_low", "probe_write_high", HwWrite(regs, ProbeOffset, 4..31),
              Wr(ProbeOffset, 4..31), op)
ProbeWriteHigh ==
    ProbeStep("probe_write_high", "probe_read_low", HwWrite(regs, ProbeOffset + 4, 0..31),
              Wr(ProbeOffset + 4, 0..31), op)

\* lib.rs 354-355: the two readbacks.
ProbeReadLow ==
    LET readback == HwRead(regs, ProbeOffset) IN
    ProbeStep("probe_read_low", "probe_read_high", regs, Rd(ProbeOffset, readback),
              [op EXCEPT !.rb_low = readback])
ProbeReadHigh ==
    LET readback == HwRead(regs, ProbeOffset + 4) IN
    ProbeStep("probe_read_high", "restore_low", regs, Rd(ProbeOffset + 4, readback),
              [op EXCEPT !.rb_high = readback])

\* lib.rs 356-376: the two restore writes, then the size and the return.
ProbeRestoreLow ==
    ProbeStep("restore_low", "restore_high", HwWrite(regs, ProbeOffset, bar_address(op.raw)),
              Wr(ProbeOffset, bar_address(op.raw)), op)
ProbeRestoreHigh ==
    \E overflow_checks \in BOOLEAN :
        ProbeStep("restore_high", "idle", HwWrite(regs, ProbeOffset + 4, op.upper),
                  Wr(ProbeOffset + 4, op.upper),
                  [op EXCEPT !.ret = bar_memory64_ret(op.raw, op.upper, op.rb_low,
                                                      op.rb_high, overflow_checks)])

\* The other actor reads a BAR register.
PeerRead(o) ==
    /\ peer' = [kind |-> "r", off |-> o, value |-> HwRead(regs, o),
                window |-> Window(o), clean |-> o \notin op.dirty]
    /\ UNCHANGED <<regs, wmask, op, trace, addr, iter, yielded, msi>>

\* The other actor writes a BAR register.
PeerWrite(o, v) ==
    /\ regs' = HwWrite(regs, o, v)
    /\ peer' = [kind |-> "w", off |-> o, value |-> v,
                window |-> Window(o), clean |-> o \notin op.dirty]
    /\ op' = [op EXCEPT !.dirty = IF op.pc = "idle" THEN @ ELSE @ \cup {o}]
    /\ UNCHANGED <<wmask, trace, addr, iter, yielded, msi>>

NextProbe ==
    \/ ProbeCall \/ ProbeReadRaw
    \/ ProbeWrite32 \/ ProbeRead32 \/ ProbeRestore32
    \/ ProbeReadUpper \/ ProbeWriteLow \/ ProbeWriteHigh
    \/ ProbeReadLow \/ ProbeReadHigh \/ ProbeRestoreLow \/ ProbeRestoreHigh
    \/ \E o \in ProbeRegs : PeerRead(o)
    \/ \E o \in ProbeRegs, v \in PeerValues : PeerWrite(o, v)

SpecProbe == InitProbe /\ [][NextProbe]_vars

(***************************************************************************)
(* PciHeader::header_type and the two from_header specializations          *)
(***************************************************************************)
\* A faulty header_type: it decodes the whole byte, bit 23 included.
header_type_whole_byte(r) ==
    LET t == ToNat(get_bits(HwRead(r, 12), 16, 24))
    IN CASE t = 0 -> [kind |-> "Endpoint"]
         [] t = 1 -> [kind |-> "PciPciBridge"]
         [] t = 2 -> [kind |-> "CardBusBridge"]
         [] OTHER -> [kind |-> "Unknown", t |-> t]

\* PciHeader::header_type: bits 16..23 (exclusive) of the dword at 0x0c.
header_type(r) ==
    LET t == ToNat(get_bits(HwRead(r, 12), 16, 23))
    IN CASE t = 0 -> [kind |-> "Endpoint"]
         [] t = 1 -> [kind |-> "PciPciBridge"]
         [] t = 2 -> [kind |-> "CardBusBridge"]
         [] OTHER -> [kind |-> "Unknown", t |-> t]

\* EndpointHeader::from_header
EndpointHeader_from_header(r) ==
    IF header_type(r).kind = "Endpoint"
    THEN [kind |-> "Some", view |-> "EndpointHeader"] ELSE None

\* PciPciBridgeHeader::from_header
PciPciBridgeHeader_from_header(r) ==
    IF header_type(r).kind = "PciPciBridge"
    THEN [kind |-> "Some", view |-> "PciPciBridgeHeader"] ELSE None

\* PciHeader::has_multiple_functions: bit 23 of the dword at 0x0c.
has_multiple_functions(r) == get_bit(HwRead(r, 12), 23)

\* The registers of the predefined header region the model holds.
HdrRegs == {12}

\* Contents of the other three bytes of the dword at 0x0c (cache line size,
\* latency timer, BIST).
HdrOtherBits == { {}, {0, 8, 24, 31}, (0..15) \cup (24..31) }

HdrFrame == addr = NoAddr /\ iter = <<>> /\ yielded = <<>> /\ msi = <<>> /\ peer = <<>>

\* Any header-type byte, any of the other contents; nothing called yet.
InitHdr ==
    /\ HdrFrame
    /\ \E byte \in 0..255, other \in HdrOtherBits :
          regs = [o \in HdrRegs |-> other \cup {i + 16 : i \in FromNat(byte, 8)}]
    /\ wmask = [o \in HdrRegs |-> {}]
    /\ trace = <<>>
    /\ op = [name |-> "none", ret |-> None]

\* A call of one of the four functions; each reads 0x0c once.
HdrCall(name, ret) ==
    /\ op' = [name |-> name, ret |-> ret]
    /\ trace' = <<Rd(12, HwRead(regs, 12))>>
    /\ UNCHANGED <<regs, wmask, addr, iter, yielded, msi, peer>>

HeaderType == HdrCall("header_type", header_type(regs))
EndpointFromHeader == HdrCall("EndpointHeader::from_header", EndpointHeader_from_header(regs))
BridgeFromHeader ==
    HdrCall("PciPciBridgeHeader::from_header", PciPciBridgeHeader_from_header(regs))

HasMultipleFunctions == HdrCall("has_multiple_functions", has_multiple_functions(regs))

NextHdr == HeaderType \/ EndpointFromHeader \/ BridgeFromHeader \/ HasMultipleFunctions

SpecHdr == InitHdr /\ [][NextHdr]_vars

(***************************************************************************)
(* PciHeader::command and update_command (lib.rs, register.rs)             *)
(***************************************************************************)
\* A faulty from_bits_retain: the bits without a named flag (11-15) are lost.
from_bits_truncate(w) == w \cap (0..10)

\* CommandRegister::from_bits_retain: every bit of the u16 is kept.
from_bits_retain(w) == w

\* CommandRegister::bits
bits(c) == c

\* The caller's closure f: it inserts the flags `ins`, removes the flags
\* `rem` and toggles the flags `tog` of the CommandRegister it is given.
CmdFns ==
    { [ins |-> {},     rem |-> {},      tog |-> {}],        \* identity
      [ins |-> {1, 2}, rem |-> {},      tog |-> {}],        \* enable memory, bus master
      [ins |-> {},     rem |-> {0, 10}, tog |-> {}],        \* clear two flags
      [ins |-> {},     rem |-> {},      tog |-> {8, 12}],   \* toggle, an unnamed bit too
      [ins |-> {},     rem |-> 0..15,   tog |-> {}] }       \* CommandRegister::empty()

Apply(f, c) ==
    LET c1 == (c \cup f.ins) \ f.rem
    IN (c1 \ f.tog) \cup (f.tog \ c1)

\* PciHeader::command
command(r) ==
    [ret |-> from_bits_retain(truncate(get_bits(HwRead(r, 4), 0, 16), 16)),
     trace |-> <<Rd(4, HwRead(r, 4))>>]

\* PciHeader::update_command: the registers after the call, the accesses
\* issued and the CommandRegister handed to f.
update_command(r, f) ==
    LET data == HwRead(r, 4)
        arg == from_bits_retain(truncate(get_bits(data, 0, 16), 16))
        new_command == Apply(f, arg)
        data2 == set_bits(data, 0, 16, truncate(bits(new_command), 32))
    IN [regs |-> HwWrite(r, 4, data2), arg |-> arg,
        trace |-> <<Rd(4, data), Wr(4, data2)>>]

\* The registers of the model: command/status at 0x04 and its neighbours.
CmdRegs == {0, 4, 8}

\* Command and status half-words the device holds at first.
CmdValues == { {}, {0, 1, 2}, {2, 10, 11, 15}, 0..15 }
CmdStatus == { {}, {4, 15}, {3, 4, 11} }

\* Writable bits of the dword at 0x04: a device (some command flags), a
\* memory cell, a read-only register.
CmdWritable == { {0, 1, 2, 6, 8, 10}, 0..31, {} }

CmdFrame == addr = NoAddr /\ iter = <<>> /\ yielded = <<>> /\ msi = <<>> /\ peer = <<>>

InitCmd ==
    /\ CmdFrame
    /\ \E c \in CmdValues, st \in CmdStatus, w \in CmdWritable :
          /\ regs = [o \in CmdRegs |->
                       IF o = 4 THEN c \cup {i + 16 : i \in st} ELSE {1, 17, 30}]
          /\ wmask = [o \in CmdRegs |-> IF o = 4 THEN w ELSE 0..31]
    /\ trace = <<>>
    /\ op = [name |-> "none", f |-> [ins |-> {}, rem |-> {}, tog |-> {}],
             arg |-> {}, ret |-> {}, pre |-> regs]

\* A call command(access).
Command ==
    LET res == command(regs) IN
    /\ trace' = res.trace
    /\ op' = [name |-> "command", f |-> op.f, arg |-> {}, ret |-> res.ret,
              pre |-> regs]
    /\ UNCHANGED <<regs, wmask, addr, iter, yielded, msi, peer>>

\* A call update_command(access, f).
UpdateCommand(f) ==
    LET res == update_command(regs, f) IN
    /\ regs' = res.regs
    /\ trace' = res.trace
    /\ op' = [name |-> "update_command", f |-> f, arg |-> res.arg, ret |-> {},
              pre |-> regs]
    /\ UNCHANGED <<wmask, addr, iter, yielded, msi, peer>>

NextCmd == Command \/ \E f \in CmdFns : UpdateCommand(f)

SpecCmd == InitCmd /\ [][NextCmd]_vars

(***************************************************************************)
(* The capability chain walker (capability/mod.rs)                         *)
(***************************************************************************)
\* The number of messages the variant of MultipleMessageSupport with
\* discriminant v stands for: Int1 = 0b000, Int2 = 0b001, ... Int32 = 0b101.
Messages(v) == 2 ^ v

\* A faulty fallback: an out-of-range encoding gives Int32.
MultipleMessageSupport_or_Int32(value) == IF value \in 0..5 THEN value ELSE 5

\* MultipleMessageSupport::try_from(value).unwrap_or(Int1): the variants
\* Int1..Int32 are their discriminants 0..5.
MultipleMessageSupport_or_Int1(value) == IF value \in 0..5 THEN value ELSE 0

\* MsiCapability::new
MsiCapability_new(offset, control) ==
    [offset |-> offset,
     per_vector_masking |-> get_bit(control, 8),
     is_64bit |-> get_bit(control, 7),
     multiple_message_capable |->
         MultipleMessageSupport_or_Int1(ToNat(get_bits(control, 1, 4)))]

\* MsixCapability::new: reads the table and PBA dwords.
MsixCapability_new(offset, control, r) ==
    [cap |-> [offset |-> offset,
              table_size |-> ToNat(get_bits(control, 0, 11)) + 1,
              table |-> HwRead(r, offset + 4),
              pba |-> HwRead(r, offset + 8)],
     trace |-> <<Rd(offset + 4, HwRead(r, offset + 4)),
                 Rd(offset + 8, HwRead(r, offset + 8))>>]

\* The variants of PciCapability that carry only an address, by ID.
AddressOnly ==
    (1 :> "PowerManagement") @@ (2 :> "AcceleratedGraphicsPort")
    @@ (3 :> "VitalProductData") @@ (4 :> "SlotIdentification")
    @@ (6 :> "CompactPCIHotswap") @@ (7 :> "PciX") @@ (8 :> "HyperTransport")
    @@ (9 :> "Vendor") @@ (10 :> "DebugPort")
    @@ (11 :> "CompactPCICentralResourceControl") @@ (12 :> "PciHotPlugControl")
    @@ (13 :> "BridgeSubsystemVendorId") @@ (14 :> "AGP3") @@ (16 :> "PciExpress")

\* PciCapability::parse: the capability (None for the null capability) and
\* the reads issued.
PciCapability_parse(id, offset, extension, r) ==
    CASE id = 0 -> [cap |-> None, trace |-> <<>>]
      [] id = 5 -> [cap |-> [kind |-> "Msi", offset |-> offset,
                             msi |-> MsiCapability_new(offset, extension)],
                    trace |-> <<>>]
      [] id = 17 -> LET m == MsixCapability_new(offset, extension, r)
                    IN [cap |-> [kind |-> "MsiX", offset |-> offset, msix |-> m.cap],
                        trace |-> m.trace]
      [] id \in DOMAIN AddressOnly ->
                   [cap |-> [kind |-> AddressOnly[id], offset |-> offset],
                    trace |-> <<>>]
      [] OTHER -> [cap |-> [kind |-> "Unknown", offset |-> offset, id |-> id],
                   trace |-> <<>>]

\* A faulty loop body: a null capability ends the walk.
next_iteration_null_ends(r, offset) ==
    LET data == HwRead(r, offset)
        next_ptr == ToNat(get_bits(data, 8, 16))
        id == ToNat(get_bits(data, 0, 8))
        extension == truncate(get_bits(data, 16, 32), 16)
        parsed == PciCapability_parse(id, offset, extension, r)
    IN [offset |-> IF id = 0 THEN 0 ELSE next_ptr, cap |-> parsed.cap,
        trace |-> <<Rd(offset, data)>> \o parsed.trace]

\* A faulty loop body with a cycle guard: a next pointer that does not lead
\* forward ends the walk.
next_iteration_forward_only(r, offset) ==
    LET data == HwRead(r, offset)
        next_ptr == ToNat(get_bits(data, 8, 16))
        id == ToNat(get_bits(data, 0, 8))
        extension == truncate(get_bits(data, 16, 32), 16)
        parsed == PciCapability_parse(id, offset, extension, r)
    IN [offset |-> IF next_ptr <= offset THEN 0 ELSE next_ptr, cap |-> parsed.cap,
        trace |-> <<Rd(offset, data)>> \o parsed.trace]

\* A faulty loop body: a next pointer of 0 leaves the offset where it is.
next_iteration_sticks_at_end(r, offset) ==
    LET data == HwRead(r, offset)
        next_ptr == ToNat(get_bits(data, 8, 16))
        id == ToNat(get_bits(data, 0, 8))
        extension == truncate(get_bits(data, 16, 32), 16)
        parsed == PciCapability_parse(id, offset, extension, r)
    IN [offset |-> IF next_ptr = 0 THEN offset ELSE next_ptr, cap |-> parsed.cap,
        trace |-> <<Rd(offset, data)>> \o parsed.trace]

\* read the entry, parse it, advance the offset.
next_iteration(r, offset) ==
    LET data == HwRead(r, offset)
        next_ptr == ToNat(get_bits(data, 8, 16))
        id == ToNat(get_bits(data, 0, 8))
        extension == truncate(get_bits(data, 16, 32), 16)
        parsed == PciCapability_parse(id, offset, extension, r)
    IN [offset |-> next_ptr, cap |-> parsed.cap,
        trace |-> <<Rd(offset, data)>> \o parsed.trace]

\* The number of capability entries the configuration space holds, and the
\* number of items after which the caller stops calling next().
NumCaps == 2
MaxYield == 3

CapOffsets == {64 + 16 * i : i \in 0..(NumCaps - 1)}
CapRegs == UNION {{o, o + 4, o + 8} : o \in CapOffsets}

\* Capability IDs in the model: null, an address-only one, MSI, one of the
\* gap 0x0F, MSI-X, and one above the table.
CapIds == {0, 1, 5, 15, 17, 255}

\* The extension half-word of every entry of the model.
CapExtension == {1, 7, 8}

\* The dword of a chain entry.
CapEntry(id, next_ptr, extension) ==
    FromNat(id, 8) \cup {i + 8 : i \in FromNat(next_ptr, 8)}
        \cup {i + 16 : i \in extension}

\* The trace of one call of next() keeps its first TraceCap accesses: a call
\* that returns issues fewer, a call caught in a cycle of null capabilities
\* issues accesses without end.
TraceCap == NumCaps + 3
Record(t, new) == IF Len(t) + Len(new) > TraceCap THEN t ELSE t \o new

CapFrame == addr = NoAddr /\ msi = <<>> /\ peer = <<>>

\* Any chain over the entries (cycles included), and an iterator just
\* constructed by CapabilityIterator::new on any start offset.
InitCap ==
    /\ CapFrame
    /\ \E ids \in [CapOffsets -> CapIds], nexts \in [CapOffsets -> CapOffsets \cup {0}] :
          regs = [o \in CapRegs |->
                    IF o \in CapOffsets THEN CapEntry(ids[o], nexts[o], CapExtension)
                    ELSE IF o - 4 \in CapOffsets THEN {1, 12} ELSE {2, 13}]
    /\ wmask = [o \in CapRegs |-> {}]
    /\ \E start \in CapOffsets \cup {0} :
          iter = [offset |-> start, start |-> start, pc |-> "idle",
                  seen |-> {}, again |-> {}]
    /\ yielded = <<>>
    /\ trace = <<>>
    /\ op = [name |-> "new", ret |-> None]

UnchangedCapFrame == UNCHANGED <<regs, wmask, addr, msi, peer>>

\* The caller calls next().
CallNext ==
    /\ iter.pc = "idle"
    /\ Len(yielded) < MaxYield
    /\ iter' = [iter EXCEPT !.pc = "loop"]
    /\ trace' = <<>>
    /\ op' = [name |-> "next", ret |-> [kind |-> "Pending"]]
    /\ UNCHANGED yielded
    /\ UnchangedCapFrame

\* mod.rs 131-133: at offset 0 next() returns None.
NextReturnsNone ==
    /\ iter.pc = "loop"
    /\ iter.offset = 0
    /\ iter' = [iter EXCEPT !.pc = "idle"]
    /\ op' = [op EXCEPT !.ret = None]
    /\ UNCHANGED <<trace, yielded>>
    /\ UnchangedCapFrame

\* mod.rs 134-147: one pass through the loop; a capability is returned, a
\* null capability goes round again.
NextIteration ==
    /\ iter.pc = "loop"
    /\ iter.offset # 0
    /\ LET step == next_iteration(regs, iter.offset)
           read == [iter EXCEPT !.offset = step.offset,
                                !.seen = @ \cup {iter.offset},
                                !.again = @ \cup ({iter.offset} \cap iter.seen)]
       IN
        /\ trace' = Record(trace, step.trace)
        /\ IF step.cap # None
           THEN /\ iter' = [read EXCEPT !.pc = "idle"]
                /\ yielded' = Append(yielded, step.cap)
                /\ op' = [op EXCEPT !.ret = [kind |-> "Some", cap |-> step.cap]]
           ELSE /\ iter' = read
                /\ UNCHANGED <<yielded, op>>
    /\ UnchangedCapFrame

NextCap == CallNext \/ NextReturnsNone \/ NextIteration

SpecCap == InitCap /\ [][NextCap]_vars

\* The walk as a caller drives it to its end: a call of next() that can take
\* a step takes it, and the caller calls next() again as long as it may.
\* For it the IDs are a null capability, an address-only one and MSI-X.
LiveIds == {0, 1, 17}
InitCapLive ==
    /\ InitCap
    /\ \A o \in CapOffsets : ToNat(get_bits(regs[o], 0, 8)) \in LiveIds

SpecCapLive == InitCapLive /\ [][NextCap]_vars /\ WF_vars(NextCap)

(***************************************************************************)
(* EndpointHeader::capability_pointer and capabilities (lib.rs)            *)
(*                                                                         *)
(* Here the pointers the device reports are arbitrary bytes, low two bits  *)
(* included.  regs gives, for every offset the program can pass, the dword *)
(* the access object returns for it; what it returns for an offset that is *)
(* not a multiple of four is up to the access object, so any entry.        *)
(***************************************************************************)
\* PciHeader::status: bits 16..32 of the dword at 0x04.
status(r) ==
    [ret |-> truncate(get_bits(HwRead(r, 4), 16, 32), 16),
     trace |-> <<Rd(4, HwRead(r, 4))>>]

\* A faulty test: a capability list is taken to be there always.
has_capability_list_always(s) == TRUE

\* StatusRegister::has_capability_list
has_capability_list(s) == get_bit(s, 4)

\* EndpointHeader::capability_pointer: the low byte of the dword at 0x34 when
\* the status register announces a capability list, else 0.
capability_pointer(r) ==
    LET s == status(r) IN
    IF has_capability_list(s.ret)
    THEN [ret |-> ToNat(truncate(get_bits(HwRead(r, 52), 0, 8), 16)),
          trace |-> s.trace \o <<Rd(52, HwRead(r, 52))>>]
    ELSE [ret |-> 0, trace |-> s.trace]

\* CapabilityIterator::new
CapabilityIterator_new(offset) ==
    [offset |-> offset, start |-> offset, pc |-> "idle", seen |-> {}, again |-> {}]

\* EndpointHeader::capabilities
capabilities(r) ==
    LET pointer == capability_pointer(r)
    IN [iter |-> CapabilityIterator_new(pointer.ret), trace |-> pointer.trace]

\* Pointer values a device reports: an aligned one, and two with low bits set.
PtrOffsets == {64, 65, 82}
PtrRegs == {4, 52} \cup UNION {{o, o + 4, o + 8} : o \in PtrOffsets}
PtrIds == {0, 1, 17}

\* Status words: with and without the capability-list bit (bit 4).
PtrStatus == { {3, 4, 11}, {3, 11} }

PtrFrame == addr = NoAddr /\ msi = <<>> /\ peer = <<>>

\* A function header whose status, capability pointer and chain entries hold
\* any of the values above; no iterator has been made yet.
InitPtr ==
    /\ PtrFrame
    /\ \E st \in PtrStatus, ptr \in PtrOffsets \cup {0},
          ids \in [PtrOffsets -> PtrIds], nexts \in [PtrOffsets -> PtrOffsets \cup {0}] :
          regs = [o \in PtrRegs |->
                    IF o = 4 THEN {1, 2} \cup {i + 16 : i \in st}
                    ELSE IF o = 52 THEN FromNat(ptr, 8) \cup {9, 30}
                    ELSE IF o \in PtrOffsets THEN CapEntry(ids[o], nexts[o], CapExtension)
                    ELSE {3, 12}]
    /\ wmask = [o \in PtrRegs |-> {}]
    /\ iter = [offset |-> 0, start |-> 0, pc |-> "none", seen |-> {}, again |-> {}]
    /\ yielded = <<>>
    /\ trace = <<>>
    /\ op = [name |-> "none", ret |-> None]

\* A call capability_pointer(access).
CapabilityPointer ==
    LET res == capability_pointer(regs) IN
    /\ iter.pc # "loop"
    /\ op' = [name |-> "capability_pointer", ret |-> [kind |-> "u16", value |-> res.ret]]
    /\ trace' = res.trace
    /\ UNCHANGED <<iter, yielded>>
    /\ UnchangedCapFrame

\* A call capabilities(access): the iterator the walk is made with.
Capabilities ==
    LET res == capabilities(regs) IN
    /\ iter.pc = "none"
    /\ iter' = res.iter
    /\ op' = [name |-> "capabilities", ret |-> [kind |-> "CapabilityIterator"]]
    /\ trace' = res.trace
    /\ UNCHANGED yielded
    /\ UnchangedCapFrame

NextPtr == CapabilityPointer \/ Capabilities \/ CallNext \/ NextReturnsNone \/ NextIteration

SpecPtr == InitPtr /\ [][NextPtr]_vars

(***************************************************************************)
(* MsiCapability (capability/msi.rs)                                       *)
(***************************************************************************)
MinNat(a, b) == IF a <= b THEN a ELSE b

\* A faulty setter: the requested value is written unclamped.
set_multiple_message_enable_unclamped(m, data, r) ==
    LET reg == HwRead(r, m.offset)
        new == set_bits(reg, 4, 7, FromNat(data, 32))
    IN [regs |-> HwWrite(r, m.offset, new),
        trace |-> <<Rd(m.offset, reg), Wr(m.offset, new)>>]

\* MsiCapability::set_multiple_message_enable: read the dword at the
\* capability offset, set its bits 4..7 to min(data, capable), write it back.
set_multiple_message_enable(m, data, r) ==
    LET reg == HwRead(r, m.offset)
        new == set_bits(reg, 4, 7, FromNat(MinNat(data, m.multiple_message_capable), 32))
    IN [regs |-> HwWrite(r, m.offset, new),
        trace |-> <<Rd(m.offset, reg), Wr(m.offset, new)>>]

\* MsiCapability::multiple_message_enable: bits 4..7 of the same dword.
multiple_message_enable(m, r) ==
    LET reg == HwRead(r, m.offset)
    IN [ret |-> MultipleMessageSupport_or_Int1(ToNat(truncate(get_bits(reg, 4, 7), 8))),
        trace |-> <<Rd(m.offset, reg)>>]

\* A faulty message_mask: per-vector masking is not looked at.
message_mask_64bit_only(m, r) ==
    IF m.is_64bit
    THEN [ret |-> HwRead(r, m.offset + 16),
          trace |-> <<Rd(m.offset + 16, HwRead(r, m.offset + 16))>>]
    ELSE [ret |-> {}, trace |-> <<>>]

\* MsiCapability::message_mask
message_mask(m, r) ==
    IF m.is_64bit /\ m.per_vector_masking
    THEN [ret |-> HwRead(r, m.offset + 16),
          trace |-> <<Rd(m.offset + 16, HwRead(r, m.offset + 16))>>]
    ELSE [ret |-> {}, trace |-> <<>>]

\* MsiCapability::set_message_mask
set_message_mask(m, mask, r) ==
    IF m.is_64bit /\ m.per_vector_masking
    THEN [regs |-> HwWrite(r, m.offset + 16, mask),
          trace |-> <<Wr(m.offset + 16, mask)>>]
    ELSE [regs |-> r, trace |-> <<>>]

\* MsiCapability::is_pending
is_pending(m, r) ==
    IF m.is_64bit
    THEN [ret |-> HwRead(r, m.offset + 20),
          trace |-> <<Rd(m.offset + 20, HwRead(r, m.offset + 20))>>]
    ELSE [ret |-> {}, trace |-> <<>>]

\* MsiCapability::is_enabled: bit 16 of the dword at the capability offset.
is_enabled(m, r) ==
    LET reg == HwRead(r, m.offset)
    IN [ret |-> get_bit(reg, 16), trace |-> <<Rd(m.offset, reg)>>]

\* A faulty set_enabled: bit 0 of the dword is taken for the enable bit.
set_enabled_bit0(m, enabled, r) ==
    LET reg == HwRead(r, m.offset)
        new == set_bit(reg, 0, enabled)
    IN [regs |-> HwWrite(r, m.offset, new),
        trace |-> <<Rd(m.offset, reg), Wr(m.offset, new)>>]

\* MsiCapability::set_enabled: read the dword, set bit 16, write it back.
set_enabled(m, enabled, r) ==
    LET reg == HwRead(r, m.offset)
        new == set_bit(reg, 16, enabled)
    IN [regs |-> HwWrite(r, m.offset, new),
        trace |-> <<Rd(m.offset, reg), Wr(m.offset, new)>>]

\* A faulty set_message_info: the data word always goes to +0x08.
set_message_info_data_at_08(m, address, data, r) ==
    LET low == truncate(get_bits(address, 0, 32), 32)
        high == truncate(get_bits(address, 32, 64), 32)
        r1 == HwWrite(r, m.offset + 4, low)
        r2 == IF m.is_64bit THEN HwWrite(r1, m.offset + 8, high) ELSE r1
        t2 == IF m.is_64bit THEN <<Wr(m.offset + 8, high)>> ELSE <<>>
    IN [regs |-> HwWrite(r2, m.offset + 8, data),
        trace |-> <<Wr(m.offset + 4, low)>> \o t2 \o <<Wr(m.offset + 8, data)>>]

\* MsiCapability::set_message_info: the low address word at +0x04, the high
\* one at +0x08 if 64-bit capable, then the data word at +0x0C or +0x08.
set_message_info(m, address, data, r) ==
    LET low == truncate(get_bits(address, 0, 32), 32)
        high == truncate(get_bits(address, 32, 64), 32)
        r1 == HwWrite(r, m.offset + 4, low)
        r2 == IF m.is_64bit THEN HwWrite(r1, m.offset + 8, high) ELSE r1
        t2 == IF m.is_64bit THEN <<Wr(m.offset + 8, high)>> ELSE <<>>
        data_offset == IF m.is_64bit THEN 12 ELSE 8
    IN [regs |-> HwWrite(r2, m.offset + data_offset, data),
        trace |-> <<Wr(m.offset + 4, low)>> \o t2
                      \o <<Wr(m.offset + data_offset, data)>>]

\* The MSI capability of the model sits at 0x40; its registers reach +0x14.
MsiOffset == 64
MsiRegs == {MsiOffset + 4 * i : i \in 0..5}

\* The writable bits of the dword at the capability offset: a device
\* register (enable and multiple-message-enable writable, ID and next
\* pointer hard-wired), a memory cell, a read-only register.
MsiWritable == { {16, 20, 21, 22}, 0..31, {} }

\* Message-control words: every multiple-message-capable encoding 0..7, with
\* and without 64-bit addressing and per-vector masking.
MsiControls ==
    { {i + 1 : i \in FromNat(mmc, 3)} \cup flags :
        mmc \in 0..7, flags \in SUBSET {7, 8} }

MsiFrame == addr = NoAddr /\ iter = <<>> /\ yielded = <<>> /\ peer = <<>>

\* An MSI capability as the chain walk found it: ID 0x05 at MsiOffset, and
\* the MsiCapability that parse constructed from its control word.
InitMsi ==
    /\ MsiFrame
    /\ \E control \in MsiControls, w \in MsiWritable :
          /\ regs = [o \in MsiRegs |->
                       IF o = MsiOffset THEN CapEntry(5, 0, control)
                       ELSE IF o = MsiOffset + 16 THEN {0, 5}
                       ELSE IF o = MsiOffset + 20 THEN {1} ELSE {}]
          /\ wmask = [o \in MsiRegs |-> IF o = MsiOffset THEN w ELSE 0..31]
          /\ msi = MsiCapability_new(MsiOffset, control)
    /\ trace = <<>>
    /\ op = [name |-> "new", data |-> 0, ret |-> 0, enabled |-> {}]

\* History: the argument of the most recent set_enabled (in a set, empty
\* before the first), kept by the calls that are not set_enabled.
Carry(o) == o @@ [enabled |-> op.enabled]

UnchangedMsiFrame == UNCHANGED <<wmask, addr, iter, yielded, msi, peer>>

\* A call set_multiple_message_enable(data, access).
SetMultipleMessageEnable(data) ==
    LET res == set_multiple_message_enable(msi, data, regs) IN
    /\ regs' = res.regs
    /\ trace' = res.trace
    /\ op' = Carry([name |-> "set_multiple_message_enable", data |-> data, ret |-> 0])
    /\ UnchangedMsiFrame

\* A call multiple_message_enable(access).
MultipleMessageEnable ==
    LET res == multiple_message_enable(msi, regs) IN
    /\ trace' = res.trace
    /\ op' = Carry([name |-> "multiple_message_enable", data |-> 0, ret |-> res.ret])
    /\ UNCHANGED regs
    /\ UnchangedMsiFrame

\* The masks a caller passes to set_message_mask.
MsiMasks == { {}, {2}, {0, 31} }

\* A call message_mask(access).
MessageMask ==
    LET res == message_mask(msi, regs) IN
    /\ trace' = res.trace
    /\ op' = Carry([name |-> "message_mask", data |-> 0, ret |-> 0, word |-> res.ret,
                    pre |-> regs])
    /\ UNCHANGED regs
    /\ UnchangedMsiFrame

\* A call set_message_mask(mask, access).
SetMessageMask(mask) ==
    LET res == set_message_mask(msi, mask, regs) IN
    /\ regs' = res.regs
    /\ trace' = res.trace
    /\ op' = Carry([name |-> "set_message_mask", data |-> 0, ret |-> 0, word |-> mask,
                    pre |-> regs])
    /\ UnchangedMsiFrame

\* A call is_pending(access).
IsPending ==
    LET res == is_pending(msi, regs) IN
    /\ trace' = res.trace
    /\ op' = Carry([name |-> "is_pending", data |-> 0, ret |-> 0, word |-> res.ret,
                    pre |-> regs])
    /\ UNCHANGED regs
    /\ UnchangedMsiFrame

\* A call is_enabled(access).
IsEnabled ==
    LET res == is_enabled(msi, regs) IN
    /\ trace' = res.trace
    /\ op' = Carry([name |-> "is_enabled", data |-> 0, ret |-> 0, flag |-> res.ret,
                    pre |-> regs])
    /\ UNCHANGED regs
    /\ UnchangedMsiFrame

\* A call set_enabled(enabled, access).
SetEnabled(enabled) ==
    LET res == set_enabled(msi, enabled, regs) IN
    /\ regs' = res.regs
    /\ trace' = res.trace
    /\ op' = [name |-> "set_enabled", data |-> 0, ret |-> 0, flag |-> enabled,
              pre |-> regs, enabled |-> {enabled}]
    /\ UnchangedMsiFrame

\* The addresses (u64) and data words (u32) a caller passes to
\* set_message_info.
MsiAddresses == { {21, 32}, {2, 31, 63} }
MsiData == { {0, 5}, {31} }

\* A call set_message_info(address, data, access).
SetMessageInfo(address, data) ==
    LET res == set_message_info(msi, address, data, regs) IN
    /\ regs' = res.regs
    /\ trace' = res.trace
    /\ op' = Carry([name |-> "set_message_info", data |-> 0, ret |-> 0,
                    address |-> address, word |-> data, pre |-> regs])
    /\ UnchangedMsiFrame

NextMsi ==
    \/ \E data \in 0..5 : SetMultipleMessageEnable(data)
    \/ MultipleMessageEnable
    \/ MessageMask
    \/ \E mask \in MsiMasks : SetMessageMask(mask)
    \/ IsPending
    \/ IsEnabled
    \/ \E enabled \in BOOLEAN : SetEnabled(enabled)
    \/ \E address \in MsiAddresses, data \in MsiData : SetMessageInfo(address, data)

SpecMsi == InitMsi /\ [][NextMsi]_vars

(***************************************************************************)
(* MsiCapability::new on every control word, and the live readback         *)
(***************************************************************************)
\* The control words a device may present: every value of bits 0-8, with the
\* reserved bits 9-15 all clear or all set.
DecodeControls == { FromNat(n, 9) \cup hi : n \in 0..511, hi \in { {}, 9..15 } }

\* An MSI entry (ID 0x05) at MsiOffset that has not been parsed yet.
InitDecode ==
    /\ MsiFrame
    /\ \E control \in DecodeControls :
          regs = [o \in MsiRegs |-> IF o = MsiOffset THEN CapEntry(5, 0, control) ELSE {}]
    /\ wmask = [o \in MsiRegs |-> {}]
    /\ msi = <<>>
    /\ trace = <<>>
    /\ op = [name |-> "none", data |-> 0, ret |-> 0, enabled |-> {}]

\* The chain walk reaches the entry: PciCapability::parse constructs the
\* MsiCapability from bits 16-31 of the dword.
MsiNew ==
    LET res == next_iteration(regs, MsiOffset) IN
    /\ msi = <<>>
    /\ msi' = res.cap.msi
    /\ trace' = res.trace
    /\ op' = Carry([name |-> "new", data |-> 0, ret |-> 0])
    /\ UNCHANGED <<regs, wmask, addr, iter, yielded, peer>>

\* The device is removed: from now on every read returns all ones.
Removed ==
    /\ msi # <<>>
    /\ regs' = [o \in MsiRegs |-> 0..31]
    /\ trace' = <<>>
    /\ op' = Carry([name |-> "removed", data |-> 0, ret |-> 0])
    /\ UnchangedMsiFrame

NextDecode ==
    \/ MsiNew
    \/ Removed
    \/ msi # <<>> /\ MultipleMessageEnable

SpecDecode == InitDecode /\ [][NextDecode]_vars

(***************************************************************************)
(* MsixCapability (capability/msix.rs)                                     *)
(***************************************************************************)
\* MsixCapability::set_enabled (bit 31) and set_function_mask (bit 30): read
\* the dword at the capability offset, set the bit, write the dword back.
msix_set_control_bit(m, bit, b, r) ==
    LET control == HwRead(r, m.offset)
        new == set_bit(control, bit, b)
    IN [regs |-> HwWrite(r, m.offset, new),
        trace |-> <<Rd(m.offset, control), Wr(m.offset, new)>>]

\* A faulty set_function_mask: it sets the enable bit.
msix_set_function_mask_bit31(m, mask, r) == msix_set_control_bit(m, 31, mask, r)

msix_set_enabled(m, enabled, r) == msix_set_control_bit(m, 31, enabled, r)
msix_set_function_mask(m, mask, r) == msix_set_control_bit(m, 30, mask, r)

\* MsixCapability::enabled and function_mask
msix_enabled(m, r) ==
    [ret |-> get_bit(HwRead(r, m.offset), 31),
     trace |-> <<Rd(m.offset, HwRead(r, m.offset))>>]
msix_function_mask(m, r) ==
    [ret |-> get_bit(HwRead(r, m.offset), 30),
     trace |-> <<Rd(m.offset, HwRead(r, m.offset))>>]

\* A faulty table_offset: the BAR-index bits are left in.
table_offset_unmasked(m) == m.table

\* MsixCapability::table_bar, table_offset, table_size, pba_bar, pba_offset
table_bar(m) == ToNat(truncate(get_bits(m.table, 0, 3), 8))
table_offset(m) == m.table \ (0..2)
table_size(m) == m.table_size
pba_bar(m) == ToNat(truncate(get_bits(m.pba, 0, 3), 8))
pba_offset(m) == m.pba \ (0..2)

\* The MSI-X capability of the model sits at 0x70.
MsixOffset == 112
MsixRegs == {MsixOffset, MsixOffset + 4, MsixOffset + 8}

\* Message-control words (table size 1, 2, 1025, 2048; other bits varied),
\* and table / PBA dwords.
MsixControls == { {}, {0, 15}, {10, 14}, 0..10, 0..15 }
MsixTables == { {}, {1, 12}, 0..31 }
MsixPbas == { {0, 2, 11}, {13} }

\* Writable bits of the three dwords: a device (enable and function mask
\* writable, the rest hard-wired), or memory cells.
MsixWritable ==
    { [o \in MsixRegs |-> IF o = MsixOffset THEN {30, 31} ELSE {}],
      [o \in MsixRegs |-> 0..31] }

\* The dwords a caller writes to the registers directly.
MsixPokes == { {}, {0, 1, 20}, {3, 27, 31} }

MsixFrame == addr = NoAddr /\ iter = <<>> /\ yielded = <<>> /\ peer = <<>>

\* The capability registers hold an MSI-X entry; no MsixCapability yet.
InitMsix ==
    /\ MsixFrame
    /\ \E control \in MsixControls, t \in MsixTables, p \in MsixPbas :
          regs = [o \in MsixRegs |->
                    IF o = MsixOffset THEN CapEntry(17, 0, control)
                    ELSE IF o = MsixOffset + 4 THEN t ELSE p]
    /\ wmask \in MsixWritable
    /\ msi = <<>>
    /\ trace = <<>>
    /\ op = [name |-> "none", ret |-> 0, word |-> {}, flag |-> FALSE,
             born |-> regs, pre |-> regs,
             set_enabled |-> {}, set_function_mask |-> {}]

UnchangedMsixFrame == UNCHANGED <<wmask, addr, iter, yielded, peer>>

\* The record of a call: its name, its result (a number, a word or a bool),
\* the registers at construction and the registers before the call; and
\* history, the arguments of the most recent set_enabled and
\* set_function_mask (each in a set, empty when there was none since the
\* control dword was last written otherwise).
MsixOp(name, ret, word, flag) ==
    [name |-> name, ret |-> ret, word |-> word, flag |-> flag,
     born |-> op.born, pre |-> regs,
     set_enabled |-> op.set_enabled, set_function_mask |-> op.set_function_mask]

\* PciCapability::parse on the entry: MsixCapability::new.
MsixNew ==
    LET control == truncate(get_bits(HwRead(regs, MsixOffset), 16, 32), 16)
        res == MsixCapability_new(MsixOffset, control, regs) IN
    /\ msi = <<>>
    /\ msi' = res.cap
    /\ trace' = res.trace
    /\ op' = [MsixOp("new", 0, {}, FALSE) EXCEPT !.born = regs]
    /\ UNCHANGED regs
    /\ UnchangedMsixFrame

\* One of the five getters; none takes an access object.
MsixGet(name) ==
    /\ msi # <<>>
    /\ trace' = <<>>
    /\ op' = MsixOp(name,
                    CASE name = "table_bar" -> table_bar(msi)
                      [] name = "pba_bar" -> pba_bar(msi)
                      [] name = "table_size" -> table_size(msi)
                      [] OTHER -> 0,
                    CASE name = "table_offset" -> table_offset(msi)
                      [] name = "pba_offset" -> pba_offset(msi)
                      [] OTHER -> {},
                    FALSE)
    /\ UNCHANGED <<regs, msi>>
    /\ UnchangedMsixFrame

\* set_enabled(enabled, access) and set_function_mask(mask, access).
MsixSet(name, b) ==
    LET res == IF name = "set_enabled" THEN msix_set_enabled(msi, b, regs)
               ELSE msix_set_function_mask(msi, b, regs) IN
    /\ msi # <<>>
    /\ regs' = res.regs
    /\ trace' = res.trace
    /\ op' = [MsixOp(name, 0, {}, b) EXCEPT ![name] = {b}]
    /\ UNCHANGED msi
    /\ UnchangedMsixFrame

\* enabled(access) and function_mask(access).
MsixTest(name) ==
    LET res == IF name = "enabled" THEN msix_enabled(msi, regs)
               ELSE msix_function_mask(msi, regs) IN
    /\ msi # <<>>
    /\ trace' = res.trace
    /\ op' = MsixOp(name, 0, {}, res.ret)
    /\ UNCHANGED <<regs, msi>>
    /\ UnchangedMsixFrame

\* The caller writes a capability register through the access object itself.
MsixPoke(off, v) ==
    /\ msi # <<>>
    /\ regs' = HwWrite(regs, off, v)
    /\ trace' = <<Wr(off, v)>>
    /\ op' = IF off = MsixOffset
             THEN [MsixOp("write", 0, v, FALSE) EXCEPT !.set_enabled = {},
                                                       !.set_function_mask = {}]
             ELSE MsixOp("write", 0, v, FALSE)
    /\ UNCHANGED msi
    /\ UnchangedMsixFrame

NextMsix ==
    \/ MsixNew
    \/ \E name \in {"table_bar", "table_offset", "table_size", "pba_bar", "pba_offset"} :
           MsixGet(name)
    \/ \E name \in {"set_enabled", "set_function_mask"}, b \in BOOLEAN : MsixSet(name, b)
    \/ \E name \in {"enabled", "function_mask"} : MsixTest(name)
    \/ \E off \in MsixRegs, v \in MsixPokes : MsixPoke(off, v)

SpecMsix == InitMsix /\ [][NextMsix]_vars

(***************************************************************************)
(* DeviceType (device_type.rs)                                             *)
(***************************************************************************)
\* enum DeviceType: its variants, in the order declared.
DeviceTypes ==
    {
      "Unknown", "LegacyVgaCompatible", "LegacyNotVgaCompatible",
      "ScsiBusController", "IdeController", "FloppyController",
      "IpiBusController", "RaidController", "AtaController", "SataController",
      "SasController", "NvmeController", "UfsController",
      "OtherMassStorageController", "EthernetController",
      "TokenRingController", "FddiController", "AtmController",
      "IsdnController", "WorldFipController", "PicmgController",
      "OtherNetworkController", "VgaCompatibleController", "XgaController",
      "ThreeDController", "OtherDisplayController", "VideoDevice",
      "AudioDevice", "TelephonyDevice", "OtherMultimediaDevice",
      "RamController", "FlashController", "OtherMemoryController",
      "HostBridge", "IsaBridge", "EisaBridge", "McaBridge", "PciPciBridge",
      "PcmciaBridge", "NuBusBridge", "CardBusBridge", "RacewayBridge",
      "SemiTransparentPciPciBridge", "InfinibandPciHostBridge",
      "OtherBridgeDevice", "SerialController", "ParallelPort",
      "MultiportSerialController", "Modem", "GpibController", "SmartCard",
      "OtherCommunicationsDevice", "InterruptController", "DmaController",
      "SystemTimer", "RtcController", "GenericPciHotPlugController",
      "SdHostController", "OtherSystemPeripheral", "KeyboardController",
      "Digitizer", "MouseController", "ScannerController",
      "GameportController", "OtherInputController", "GenericDockingStation",
      "OtherDockingStation", "Processor386", "Processor486",
      "ProcessorPentium", "ProcessorAlpha", "ProcessorPowerPc",
      "ProcessorMips", "CoProcessor", "FirewireController",
      "AccessBusController", "SsaBusController", "UsbController",
      "FibreChannelController", "SmBusController", "InfiniBandController",
      "IpmiController", "SercosController", "CanBusController",
      "IrdaController", "ConsumerIrController", "RfController",
      "BluetoothController", "BroadbandController", "Ethernet5GHzController",
      "Ethernet24GHzController", "OtherWirelessController",
      "IntelligentIoController", "TvSatelliteCommunicationsController",
      "AudioSatelliteCommunicationsController",
      "VoiceSatelliteCommunicationsController",
      "DataSatelliteCommunicationsController", "NetworkCryptionController",
      "EntertainmentCryptionController", "OtherCryptionController",
      "DpioModule", "PerformanceCounter",
      "CommunicationsSynchronizationController", "ManagementCard",
      "OtherSignalProcessingController"
    }

\* The arms of the match in DeviceType::from, in source order: base class,
\* sub class, variant.  The last arm, `_ => Unknown`, is the fallback of
\* DeviceType_from.
DeviceArms ==
    <<
      <<0, 0, "LegacyNotVgaCompatible">>, <<0, 1, "LegacyVgaCompatible">>,
      <<1, 0, "ScsiBusController">>, <<1, 1, "IdeController">>,
      <<1, 2, "FloppyController">>, <<1, 3, "IpiBusController">>,
      <<1, 4, "RaidController">>, <<1, 5, "AtaController">>,
      <<1, 6, "SataController">>, <<1, 7, "SasController">>,
      <<1, 8, "NvmeController">>, <<1, 9, "UfsController">>,
      <<1, 128, "OtherMassStorageController">>,
      <<2, 0, "EthernetController">>, <<2, 1, "TokenRingController">>,
      <<2, 2, "FddiController">>, <<2, 3, "AtmController">>,
      <<2, 4, "IsdnController">>, <<2, 6, "PicmgController">>,
      <<2, 128, "OtherNetworkController">>,
      <<3, 0, "VgaCompatibleController">>, <<3, 1, "XgaController">>,
      <<3, 2, "ThreeDController">>, <<3, 128, "OtherDisplayController">>,
      <<4, 0, "VideoDevice">>, <<4, 1, "AudioDevice">>,
      <<4, 2, "TelephonyDevice">>, <<4, 3, "OtherMultimediaDevice">>,
      <<5, 0, "RamController">>, <<5, 1, "FlashController">>,
      <<5, 2, "OtherMemoryController">>, <<6, 0, "HostBridge">>,
      <<6, 1, "IsaBridge">>, <<6, 2, "EisaBridge">>, <<6, 3, "McaBridge">>,
      <<6, 4, "PciPciBridge">>, <<6, 5, "PcmciaBridge">>,
      <<6, 6, "NuBusBridge">>, <<6, 7, "CardBusBridge">>,
      <<6, 8, "RacewayBridge">>, <<6, 9, "SemiTransparentPciPciBridge">>,
      <<6, 10, "InfinibandPciHostBridge">>, <<6, 128, "OtherBridgeDevice">>,
      <<7, 0, "SerialController">>, <<7, 1, "ParallelPort">>,
      <<7, 2, "MultiportSerialController">>, <<7, 3, "Modem">>,
      <<7, 4, "GpibController">>, <<7, 5, "SmartCard">>,
      <<7, 128, "OtherCommunicationsDevice">>,
      <<8, 0, "InterruptController">>, <<8, 1, "DmaController">>,
      <<8, 2, "SystemTimer">>, <<8, 3, "RtcController">>,
      <<8, 4, "GenericPciHotPlugController">>, <<8, 5, "SdHostController">>,
      <<8, 128, "OtherSystemPeripheral">>, <<9, 0, "KeyboardController">>,
      <<9, 1, "Digitizer">>, <<9, 2, "MouseController">>,
      <<9, 3, "ScannerController">>, <<9, 4, "GameportController">>,
      <<9, 128, "OtherInputController">>, <<10, 0, "GenericDockingStation">>,
      <<10, 128, "OtherDockingStation">>, <<11, 0, "Processor386">>,
      <<11, 1, "Processor486">>, <<11, 2, "ProcessorPentium">>,
      <<11, 16, "ProcessorAlpha">>, <<11, 32, "ProcessorPowerPc">>,
      <<11, 48, "ProcessorMips">>, <<11, 64, "CoProcessor">>,
      <<12, 0, "FirewireController">>, <<12, 1, "AccessBusController">>,
      <<12, 2, "SsaBusController">>, <<12, 3, "UsbController">>,
      <<12, 4, "FibreChannelController">>, <<12, 5, "SmBusController">>,
      <<12, 6, "InfiniBandController">>, <<12, 7, "IpmiController">>,
      <<12, 8, "SercosController">>, <<12, 9, "CanBusController">>,
      <<13, 0, "IrdaController">>, <<13, 1, "ConsumerIrController">>,
      <<13, 16, "RfController">>, <<13, 17, "BluetoothController">>,
      <<13, 18, "BroadbandController">>, <<13, 32, "Ethernet5GHzController">>,
      <<13, 33, "Ethernet24GHzController">>,
      <<13, 128, "OtherWirelessController">>,
      <<14, 0, "IntelligentIoController">>,
      <<15, 0, "TvSatelliteCommunicationsController">>,
      <<15, 1, "AudioSatelliteCommunicationsController">>,
      <<15, 2, "VoiceSatelliteCommunicationsController">>,
      <<15, 3, "DataSatelliteCommunicationsController">>,
      <<16, 0, "NetworkCryptionController">>,
      <<16, 16, "EntertainmentCryptionController">>,
      <<16, 128, "OtherCryptionController">>, <<17, 0, "DpioModule">>,
      <<17, 1, "PerformanceCounter">>,
      <<17, 16, "CommunicationsSynchronizationController">>,
      <<17, 32, "ManagementCard">>,
      <<17, 128, "OtherSignalProcessingController">>
    >>

\* The arms whose pattern is the pair (base, sub).
ArmsMatching(base, sub) ==
    {i \in 1..Len(DeviceArms) : DeviceArms[i][1] = base /\ DeviceArms[i][2] = sub}

\* A faulty classifier: an unlisted sub class of a base class that has an
\* "other" arm (sub class 0x80) is given that variant.
DeviceType_from_other_fallback(base, sub) ==
    LET hits == ArmsMatching(base, sub)
        other == ArmsMatching(base, 128)
    IN IF hits # {} THEN DeviceArms[MinOf(hits)][3]
       ELSE IF other # {} THEN DeviceArms[MinOf(other)][3]
       ELSE "Unknown"

\* DeviceType::from((base, sub)): the first arm that matches, else Unknown.
DeviceType_from(base, sub) ==
    LET hits == ArmsMatching(base, sub)
    IN IF hits # {} THEN DeviceArms[MinOf(hits)][3] ELSE "Unknown"

\* BaseClass and SubClass are u8.
BaseClasses == 0..255
SubClasses == 0..255

DevFrame ==
    /\ regs = <<>> /\ wmask = <<>> /\ trace = <<>> /\ addr = NoAddr
    /\ iter = <<>> /\ yielded = <<>> /\ msi = <<>> /\ peer = <<>>

\* The caller holds a (base class, sub class) pair, any of the 65,536.
InitDev ==
    /\ DevFrame
    /\ \E base \in BaseClasses, sub \in SubClasses :
          op = [name |-> "class", base |-> base, sub |-> sub, ret |-> "none"]

\* The call DeviceType::from((base, sub)).
From ==
    /\ op.name = "class"
    /\ op' = [op EXCEPT !.name = "from", !.ret = DeviceType_from(op.base, op.sub)]
    /\ UNCHANGED <<regs, wmask, trace, addr, iter, yielded, msi, peer>>

NextDev == From

SpecDev == InitDev /\ [][NextDev]_vars

(***************************************************************************)
(* Properties of PciAddress                                                *)
(***************************************************************************)
ValidTuples == Segments \X Buses \X Devices \X Functions

\* The packed address of every valid tuple.
AddrOf == [t \in ValidTuples |-> PciAddress_new(t[1], t[2], t[3], t[4])]

\* Distinct valid tuples pack to distinct addresses.
AddrsDistinct ==
    Cardinality({AddrOf[t] : t \in ValidTuples}) = Cardinality(ValidTuples)

InRange == op.device < 32 /\ op.function < 8

\* C8: for in-range arguments new returns an address whose four getters give
\* back the four arguments, and no other valid tuple packs to the same address.
AddrRoundTrip ==
    (op.name # "args" /\ InRange) =>
        /\ op.status = "ok"
        /\ op.name = "segment"  => op.ret = op.segment
        /\ op.name = "bus"      => op.ret = op.bus
        /\ op.name = "device"   => op.ret = op.device
        /\ op.name = "function" => op.ret = op.function
        /\ addr = AddrOf[<<op.segment, op.bus, op.device, op.function>>]
        /\ AddrsDistinct

AddrRoundTripWitness ==
    /\ op.name = "device" /\ op.device = 31 /\ op.function = 7
    /\ op.segment = 65535 /\ op.bus = 255 /\ op.ret = 31

\* C9 as stated: new never fails, and an out-of-range device or function is
\* cut to its low 5 or 3 bits, the other fields being unaffected.
AddrNewTruncates ==
    op.name = "new" =>
        /\ op.status = "ok"
        /\ device(addr) = op.device % 32
        /\ function(addr) = op.function % 8
        /\ bus(addr) = op.bus
        /\ segment(addr) = op.segment

\* C9 amended: new fails (set_bits panics) exactly when device >= 32 or
\* function >= 8, and then constructs no address; it never truncates.
AddrNewRejectsOutOfRange ==
    op.name # "args" =>
        /\ op.status = "panic" <=> ~InRange
        /\ op.status = "panic" => addr = Panic

AddrNewRejectsWitness ==
    op.name = "new" /\ op.device = 32 /\ op.function = 0 /\ op.status = "panic"

(***************************************************************************)
(* Properties of bar and write_bar                                         *)
(***************************************************************************)
IsWrite(e) == e[1] = "w"
WritesTo(t, off) == SelectSeq(t, LAMBDA e : e[1] = "w" /\ e[2] = off)
ReadsOf(t, off) == SelectSeq(t, LAMBDA e : e[1] = "r" /\ e[2] = off)
LastOf(q) == q[Len(q)]
Touched(t) == {t[i][2] : i \in 1..Len(t)}
Control == 0..3

SlotOffset == 16 + 4 * op.slot
BarReturned == op.name = "bar" /\ op.ret.kind # "Panic"

\* C1 as stated: after bar returns every register holds the value it held
\* before, and the last write to a probed register is the value first read.
BarRestoresExactly ==
    BarReturned =>
        \A o \in BarRegs :
            /\ regs[o] = op.pre[o]
            /\ WritesTo(trace, o) # <<>> =>
                   LastOf(WritesTo(trace, o))[3] = ReadsOf(trace, o)[1][3]

\* C1 amended: the last write to the slot's register is the value first read
\* with its control bits 0-3 cleared, the last write to the next register is
\* the value first read from it; so bits 4-31 of every register are as
\* before, and the whole register is wherever its control bits are read-only.
BarRestoresAddress ==
    BarReturned =>
        \A o \in BarRegs :
            /\ regs[o] \ Control = op.pre[o] \ Control
            /\ o # SlotOffset => regs[o] = op.pre[o]
            /\ wmask[o] \cap Control = {} => regs[o] = op.pre[o]
            /\ WritesTo(trace, o) # <<>> =>
                   LastOf(WritesTo(trace, o))[3] =
                       IF o = SlotOffset THEN ReadsOf(trace, o)[1][3] \ Control
                       ELSE ReadsOf(trace, o)[1][3]

BarRestoresWitness ==
    /\ op.name = "bar" /\ op.ret.kind = "Memory64" /\ Len(trace) = 8
    /\ regs = op.pre /\ op.pre[SlotOffset] = {2, 24}

\* The probe readback of the call, control bits cleared: trace[3] for a
\* 32-bit slot, trace[5] and trace[6] joined for a 64-bit one.
Probed32 == op.name = "bar" /\ Len(trace) = 4
Probed64 == op.name = "bar" /\ Len(trace) = 8
Masked32 == trace[3][3] \ Control
Masked64 == (trace[5][3] \ Control) \cup {i + 32 : i \in trace[6][3]}

\* C2, for the nonzero readbacks: the size of a memory BAR returned is the
\* single bit at the position of the lowest set bit of the masked readback.
BarSizePowerOfTwo ==
    /\ (Probed32 /\ op.ret.kind = "Memory32" /\ Masked32 # {}) =>
           op.ret.size = {MinOf(Masked32)}
    /\ (Probed64 /\ op.ret.kind = "Memory64" /\ Masked64 # {}) =>
           op.ret.size = {MinOf(Masked64)}

\* C3: a probe whose masked readback is zero returns None (no panic, no Bar).
BarAbsentOnZeroReadback ==
    /\ (Probed32 /\ Masked32 = {}) => op.ret = None
    /\ (Probed64 /\ Masked64 = {}) => op.ret = None

\* C4: bar(5) on a 64-bit memory-typed slot returns None, writes nothing and
\* does not touch 0x28.
BarLastSlot64 ==
    (op.name = "bar" /\ op.slot = 5 /\ ~get_bit(op.pre[36], 0)
        /\ get_bits(op.pre[36], 1, 3) = {1}) =>
        /\ op.ret = None
        /\ \A i \in 1..Len(trace) : ~IsWrite(trace[i])
        /\ 40 \notin Touched(trace)
        /\ regs = op.pre

BarLastSlot64Witness ==
    /\ op.name = "bar" /\ op.slot = 5 /\ op.pre[36] = {2, 24} /\ op.ret = None
    /\ trace = <<Rd(36, {2, 24})>>

\* What bar(slot) returned for the registers write_bar was called on.
DecodedBefore == bar(op.pre, op.slot, FALSE).ret
WriteBarReturned == op.name = "write_bar" /\ op.ret.kind # "Panic"
InvalidValue == [kind |-> "Err", error |-> "InvalidValue"]
NoSuchBar == [kind |-> "Err", error |-> "NoSuchBar"]

WriteBarErrors ==
    /\ op.ret = InvalidValue <=>
           (DecodedBefore.kind \in {"Memory32", "Io"} /\ op.value \cap (32..63) # {})
    /\ op.ret = NoSuchBar <=> DecodedBefore = None

\* C10 as stated: the two errors are returned exactly in their cases, and on
\* an error every register holds the value it held before the call.
WriteBarErrorLeavesRegisters ==
    WriteBarReturned =>
        /\ WriteBarErrors
        /\ op.ret.kind = "Err" => regs = op.pre

\* C10 amended: on an error bits 4-31 of every register are as before, and
\* the whole register is wherever its control bits 0-3 are read-only.
WriteBarErrorLeavesAddress ==
    WriteBarReturned =>
        /\ WriteBarErrors
        /\ op.ret.kind = "Err" =>
               \A o \in BarRegs :
                   /\ regs[o] \ Control = op.pre[o] \ Control
                   /\ wmask[o] \cap Control = {} => regs[o] = op.pre[o]

WriteBarErrorWitness ==
    /\ op.name = "write_bar" /\ op.ret = InvalidValue /\ op.value = {21, 32}
    /\ op.pre[SlotOffset] = {3, 20} /\ Len(trace) = 4 /\ regs = op.pre

(***************************************************************************)
(* Properties of the header-type dispatch                                  *)
(***************************************************************************)
\* The header-type byte (bits 16-23 inclusive) and its low seven bits.
TypeByte == ToNat(get_bits(regs[12], 16, 24))
TypeField == TypeByte % 128

IsEndpointCall == op.name = "EndpointHeader::from_header"
IsBridgeCall == op.name = "PciPciBridgeHeader::from_header"

\* C7 as stated: a byte other than 0x00 gives no Endpoint view, a byte other
\* than 0x01 gives no Bridge view, and never both views.
DispatchOnWholeByte ==
    /\ (IsEndpointCall /\ TypeByte # 0) => op.ret = None
    /\ (IsBridgeCall /\ TypeByte # 1) => op.ret = None
    /\ ~(EndpointHeader_from_header(regs) # None
           /\ PciPciBridgeHeader_from_header(regs) # None)

\* C7 amended: the views are decided by bits 16-22 alone; the byte 0x80 gives
\* an Endpoint view and 0x81 a Bridge view; never both views.
DispatchOnTypeField ==
    /\ IsEndpointCall => (op.ret # None <=> TypeField = 0)
    /\ IsBridgeCall => (op.ret # None <=> TypeField = 1)
    /\ ~(EndpointHeader_from_header(regs) # None
           /\ PciPciBridgeHeader_from_header(regs) # None)

DispatchWitness ==
    IsEndpointCall /\ TypeByte = 128 /\ op.ret = [kind |-> "Some", view |-> "EndpointHeader"]

(***************************************************************************)
(* Properties of the capability walk                                       *)
(***************************************************************************)
EntryId(o) == ToNat(regs[o] \cap (0..7))
EntryNext(o) == ToNat(get_bits(regs[o], 8, 16))

\* The offsets met by following next pointers from o, at most n of them.
RECURSIVE ChainFrom(_, _)
ChainFrom(o, n) ==
    IF o = 0 \/ n = 0 THEN <<>> ELSE <<o>> \o ChainFrom(EntryNext(o), n - 1)

\* What the walk owes for the entry at o: the variant, the offset, the raw ID
\* of an Unknown.
Owed(o) ==
    LET id == EntryId(o) IN
    [kind |-> CASE id = 5 -> "Msi"
                [] id = 17 -> "MsiX"
                [] id \notin (0..14) \cup {16, 17} -> "Unknown"
                [] OTHER -> AddressOnly[id],
     offset |-> o,
     id |-> IF id \notin (0..14) \cup {16, 17} THEN id ELSE -1]

Seen(item) ==
    [kind |-> item.kind, offset |-> item.offset,
     id |-> IF item.kind = "Unknown" THEN item.id ELSE -1]

OwedItems(chain) ==
    LET nonnull == SelectSeq(chain, LAMBDA o : EntryId(o) # 0)
    IN [i \in 1..Len(nonnull) |-> Owed(nonnull[i])]

WalkChain == ChainFrom(iter.start, NumCaps * (MaxYield + 1))

\* C5: the items yielded are, in chain order, one per entry with a nonzero
\* ID, each with the offset and variant of its entry; next() returns None
\* only at offset 0, and then every such entry of the chain has been yielded.
CapWalkYieldsChain ==
    LET owed == OwedItems(WalkChain) IN
    /\ Len(yielded) <= Len(owed)
    /\ \A i \in 1..Len(yielded) : Seen(yielded[i]) = owed[i]
    /\ (op.name = "next" /\ op.ret = None) =>
           /\ iter.offset = 0
           /\ Len(yielded) = Len(owed)
    /\ (op.name = "next" /\ op.ret.kind = "Some") =>
           /\ yielded # <<>>
           /\ op.ret.cap = yielded[Len(yielded)]

\* A chain null -> MSI-X -> end: the null entry is skipped, not an end.
CapWalkWitness ==
    /\ op.name = "next" /\ op.ret = None
    /\ iter.start = 64 /\ EntryId(64) = 0 /\ EntryNext(64) = 80
    /\ Len(yielded) = 1 /\ yielded[1].kind = "MsiX" /\ yielded[1].offset = 80

(***************************************************************************)
(* Properties of MsiCapability                                             *)
(***************************************************************************)
\* C6: set_multiple_message_enable writes min(requested, capable) into the
\* multiple-message-enable field, and multiple_message_enable never reports
\* more than multiple_message_capable.
MsiEnableClamped ==
    /\ op.name = "set_multiple_message_enable" =>
           /\ Len(trace) = 2 /\ trace[2][1] = "w" /\ trace[2][2] = msi.offset
           /\ ToNat(get_bits(trace[2][3], 4, 7))
                  = (IF op.data <= msi.multiple_message_capable
                     THEN op.data ELSE msi.multiple_message_capable)
    /\ op.name = "multiple_message_enable" =>
           op.ret <= msi.multiple_message_capable

MsiEnableClampedWitness ==
    /\ op.name = "multiple_message_enable" /\ op.ret = 2
    /\ msi.multiple_message_capable = 2 /\ wmask[MsiOffset] = 0..31

(***************************************************************************)
(* Properties of the offsets passed to the access object                   *)
(***************************************************************************)
\* C11: every offset an operation passes to read or write is a multiple of
\* four, whatever the capability pointer and the next pointers hold.
OffsetsAligned == \A i \in 1..Len(trace) : trace[i][2] % 4 = 0

\* Both 64-bit addressing and per-vector masking are supported.
MaskSupported == msi.is_64bit /\ msi.per_vector_masking

\* C12: with both supported message_mask reads exactly the dword at +0x10 and
\* returns it, set_message_mask writes exactly the mask to +0x10; otherwise
\* message_mask returns 0 with no access and set_message_mask does nothing.
MsiMaskGated ==
    /\ op.name = "message_mask" =>
           IF MaskSupported
           THEN /\ trace = <<Rd(msi.offset + 16, regs[msi.offset + 16])>>
                /\ op.word = regs[msi.offset + 16]
           ELSE trace = <<>> /\ op.word = {}
    /\ op.name = "set_message_mask" =>
           IF MaskSupported
           THEN /\ trace = <<Wr(msi.offset + 16, op.word)>>
                /\ regs = [op.pre EXCEPT ![msi.offset + 16] = op.word]
           ELSE trace = <<>> /\ regs = op.pre

MsiMaskGatedWitness ==
    /\ op.name = "message_mask" /\ MaskSupported /\ op.word = {0, 31}
    /\ Len(trace) = 1

\* C13: is_pending reads the dword at +0x14 and returns it only when both
\* are supported; in every other case it returns 0 and reads nothing.
MsiPendingGated ==
    op.name = "is_pending" =>
        IF MaskSupported
        THEN /\ trace = <<Rd(msi.offset + 20, regs[msi.offset + 20])>>
             /\ op.word = regs[msi.offset + 20]
        ELSE trace = <<>> /\ op.word = {}

(***************************************************************************)
(* Further properties of bar                                               *)
(***************************************************************************)
\* The raw value of the slot is memory-typed with width bits 01 or 11.
ReservedType(raw) == ~get_bit(raw, 0) /\ get_bits(raw, 1, 3) \in { {0}, {0, 1} }

\* C14: bar on a slot of a reserved memory type returns no Bar and no None:
\* it panics after the one read of the slot, having written nothing.
BarReservedTypeRejected ==
    (op.name = "bar" /\ op.slot < MAX_BARS /\ ReservedType(op.pre[SlotOffset])) =>
        /\ op.ret = Panicked
        /\ trace = <<Rd(SlotOffset, op.pre[SlotOffset])>>
        /\ regs = op.pre

BarReservedTypeWitness ==
    /\ op.name = "bar" /\ op.slot = 3 /\ op.pre[SlotOffset] = {1, 2}
    /\ op.ret = Panicked /\ Len(trace) = 1

(***************************************************************************)
(* Properties of update_command                                            *)
(***************************************************************************)
\* C15: update_command reads 0x04 once and then writes 0x04 once; f receives
\* the low 16 bits read, all sixteen; the dword written is the status half
\* as read over f's result, all sixteen bits; no other register changes.
UpdateCommandWritesBack ==
    op.name = "update_command" =>
        /\ Len(trace) = 2
        /\ trace[1] = Rd(4, op.pre[4])
        /\ trace[2][1] = "w" /\ trace[2][2] = 4
        /\ op.arg = op.pre[4] \cap (0..15)
        /\ trace[2][3] \cap (16..31) = op.pre[4] \cap (16..31)
        /\ trace[2][3] \cap (0..15) = Apply(op.f, op.pre[4] \cap (0..15))
        /\ \A o \in CmdRegs \ {4} : regs[o] = op.pre[o]

\* Bus mastering enabled on a command word with unnamed bits 11 and 15 set.
UpdateCommandWitness ==
    /\ op.name = "update_command" /\ op.f.ins = {1, 2}
    /\ op.pre[4] = {2, 10, 11, 15, 20, 31}
    /\ trace[2] = Wr(4, {1, 2, 10, 11, 15, 20, 31})

(***************************************************************************)
(* Properties of the capability walk on cyclic and on finite chains        *)
(***************************************************************************)
\* The chain from the start offset, followed far enough for every offset on
\* a cycle to come up twice.
LongChain == ChainFrom(iter.start, 2 * NumCaps + 1)

\* The offsets the chain revisits: those on its cycle, if it has one.
OnCycle ==
    {LongChain[i] : i \in {j \in 1..Len(LongChain) :
                              \E k \in 1..Len(LongChain) :
                                  k # j /\ LongChain[k] = LongChain[j]}}

Cyclic == OnCycle # {}
NullCycle == Cyclic /\ \A o \in OnCycle : EntryId(o) = 0

\* C16: on a chain that revisits an offset the iterator's offset never
\* becomes 0 and next() never returns None; and once a call of next() is on
\* a cycle of null capabilities it stays in its loop, step after step.
CapWalkCycleNeverEnds ==
    /\ [](Cyclic => (iter.offset # 0 /\ ~(op.name = "next" /\ op.ret = None)))
    /\ [][(NullCycle /\ iter.pc = "loop" /\ iter.offset \in OnCycle) =>
             (iter'.pc = "loop" /\ iter'.offset \in OnCycle /\ yielded' = yielded)]_vars

\* A null capability pointing at itself: the call has read it again and
\* again and is still in its loop.
CapWalkCycleWitness ==
    /\ iter.start = 64 /\ EntryId(64) = 0 /\ EntryNext(64) = 64
    /\ iter.pc = "loop" /\ Len(trace) = TraceCap /\ yielded = <<>>

\* The entries of a chain that ends: every offset from the start to the 0.
ChainEntries == {LongChain[i] : i \in 1..Len(LongChain)}

ReturnedNone == op.name = "next" /\ op.ret = None /\ iter.pc = "idle"

\* C19: on a chain that reaches 0 without revisiting an offset, no entry is
\* read twice, the walk comes to return None, and by then every entry of the
\* chain has been read once; from offset 0 on, the offset stays 0, a call
\* of next() returns None and no entry is read any more.
CapWalkSinglePass ==
    /\ [](~Cyclic => (iter.again = {} /\ iter.seen \subseteq ChainEntries))
    /\ []((~Cyclic /\ ReturnedNone) => (iter.seen = ChainEntries /\ iter.offset = 0))
    /\ [][iter.offset = 0 =>
             /\ iter'.offset = 0
             /\ iter'.seen = iter.seen /\ iter'.again = iter.again
             /\ trace' \in {trace, <<>>}
             /\ iter.pc = "loop" => (iter'.pc = "idle" /\ op'.ret = None)]_vars
    /\ ~Cyclic ~> ReturnedNone

\* A call of next() on the walked chain 0x40 -> 0x50 -> end: None, no read.
CapWalkSinglePassWitness ==
    /\ ReturnedNone /\ trace = <<>> /\ Len(yielded) = 2
    /\ iter.start = 64 /\ iter.seen = {64, 80} /\ iter.again = {}

(***************************************************************************)
(* Properties of MsixCapability                                            *)
(***************************************************************************)
\* The three dwords as they were when the capability was constructed.
BornControl == get_bits(op.born[MsixOffset], 16, 32)
BornTable == op.born[MsixOffset + 4]
BornPba == op.born[MsixOffset + 8]

\* C17: construction reads +0x04 and +0x08 once each; table_size is bits 0-10
\* of the control word plus one, within 1..2048; table_bar and pba_bar are
\* the low three bits, table_offset and pba_offset the rest, of the dwords
\* read at construction, whatever the registers hold by now; the five
\* getters issue no access.
MsixFieldsFixed ==
    /\ op.name = "new" =>
           trace = <<Rd(MsixOffset + 4, BornTable), Rd(MsixOffset + 8, BornPba)>>
    /\ op.name = "table_size" =>
           /\ op.ret = ToNat(BornControl \cap (0..10)) + 1
           /\ op.ret \in 1..2048
           /\ trace = <<>>
    /\ op.name = "table_bar" =>
           op.ret = ToNat(BornTable \cap (0..2)) /\ trace = <<>>
    /\ op.name = "pba_bar" =>
           op.ret = ToNat(BornPba \cap (0..2)) /\ trace = <<>>
    /\ op.name = "table_offset" =>
           op.word = BornTable \cap (3..31) /\ trace = <<>>
    /\ op.name = "pba_offset" =>
           op.word = BornPba \cap (3..31) /\ trace = <<>>

\* The table register has been overwritten since construction; table_offset
\* still answers from the dword read then.
MsixFieldsFixedWitness ==
    /\ op.name = "table_offset" /\ op.word = 3..31
    /\ regs[MsixOffset + 4] = {0, 1, 20} /\ BornTable = 0..31

(***************************************************************************)
(* Properties of DeviceType::from                                          *)
(***************************************************************************)
\* C18: from returns a variant for every pair; a pair that an arm lists gets
\* the variant of that arm (no arm is shadowed by another), and every other
\* pair, those of a base class above 0x11 among them, gets Unknown.
DeviceTypeTotal ==
    op.name = "from" =>
        /\ op.ret \in DeviceTypes
        /\ \A i \in ArmsMatching(op.base, op.sub) : op.ret = DeviceArms[i][3]
        /\ ArmsMatching(op.base, op.sub) = {} => op.ret = "Unknown"
        /\ op.base > 17 => op.ret = "Unknown"

DeviceTypeTotalWitness ==
    /\ op.name = "from" /\ op.base = 13 /\ op.sub = 33
    /\ op.ret = "Ethernet24GHzController"

(***************************************************************************)
(* Properties of bar beside another actor                                  *)
(***************************************************************************)
\* The registers of the BAR being probed, once both of its probe writes (or
\* its one) are done and no restore write is.
FullWindow == op.pc \in {"probe_read", "restore", "probe_read_low", "probe_read_high",
                         "restore_low"}
Probed == IF op.pc \in {"probe_read", "restore"} THEN {ProbeOffset} ELSE ProbeRegs

\* Address bits of a register, and those of them a write can change.
AddressBits(o) == IF o = ProbeOffset THEN 4..31 ELSE 0..31
AddrMask(o) == wmask[o] \cap AddressBits(o)

\* What the register holds after the probe write: every writable address bit
\* set, writable type bits cleared, hard-wired bits as they are.
SizeMask(o) == AddrMask(o) \cup (regs[o] \ wmask[o])

\* What the register holds after the restore write.
Restored(o) ==
    ((IF o = ProbeOffset THEN op.raw \ Control ELSE op.upper) \cap wmask[o])
        \cup (regs[o] \ wmask[o])

PeerReadSeesMask ==
    (peer.kind = "r" /\ peer.window /\ peer.clean) => peer.value = SizeMask(peer.off)

PeerWriteIsLost ==
    (peer.kind = "w" /\ peer.window /\ ~Window(peer.off)) =>
        regs[peer.off] = Restored(peer.off)

\* C20 as stated: while an implemented memory BAR is probed it does not hold
\* its original address; a read by the other actor in the window sees the
\* size mask; a write by the other actor in the window is undone by the
\* restore.
ProbeWindowHidesAddress ==
    /\ (FullWindow /\ op.dirty = {} /\ \E o \in Probed : AddrMask(o) # {}) =>
           \E o \in Probed : regs[o] \cap AddressBits(o) # op.pre[o] \cap AddressBits(o)
    /\ PeerReadSeesMask
    /\ PeerWriteIsLost

\* C20 amended: in the window the register holds the size mask, which is
\* the original address exactly when every writable address bit of the BAR
\* was set already; the other actor's read sees the mask, its write is undone
\* by the restore; and a call no other access falls into has the effect and
\* the result of the call taken as one step.
ProbeWindowHoldsMask ==
    /\ \A o \in ProbeRegs : (Window(o) /\ o \notin op.dirty) => regs[o] = SizeMask(o)
    /\ (FullWindow /\ op.dirty = {}) =>
           ((\A o \in Probed : regs[o] \cap AddressBits(o) = op.pre[o] \cap AddressBits(o))
               <=> (\A o \in Probed : AddrMask(o) \subseteq op.pre[o]))
    /\ PeerReadSeesMask
    /\ PeerWriteIsLost
    /\ (op.name = "bar" /\ op.pc = "idle" /\ peer.kind = "none") =>
           \E overflow_checks \in BOOLEAN :
               LET whole == bar(op.pre, op.slot, overflow_checks)
               IN whole.regs = regs /\ whole.ret = op.ret /\ whole.trace = trace

\* The other actor moved the 16-byte BAR to 0x40400000 during the probe; the
\* call has returned and the register holds the old address again.
ProbeWindowWitness ==
    /\ op.name = "bar" /\ op.pc = "idle" /\ op.ret.kind = "Memory32"
    /\ peer.kind = "w" /\ peer.window /\ peer.value = {22, 30}
    /\ op.pre[ProbeOffset] = {16} /\ regs[ProbeOffset] = {16}

\* The low and the high 32 bits of the value passed to write_bar.
ValueLow == op.value \cap (0..31)
ValueHigh == {i - 32 : i \in op.value \cap (32..63)}

\* C21: when write_bar returns Ok the slot decoded as a BAR, the last write
\* to the slot's register is the low 32 bits of the value; for a Memory64
\* slot the last write to the next register is bits 32-63 of the value, and
\* for a Memory32 or Io slot no write is issued to the next register.
WriteBarOkWrites ==
    (op.name = "write_bar" /\ op.ret.kind = "Ok") =>
        /\ DecodedBefore.kind \in {"Memory64", "Memory32", "Io"}
        /\ WritesTo(trace, SlotOffset) # <<>>
        /\ LastOf(WritesTo(trace, SlotOffset))[3] = ValueLow
        /\ DecodedBefore.kind = "Memory64" =>
               /\ WritesTo(trace, SlotOffset + 4) # <<>>
               /\ LastOf(WritesTo(trace, SlotOffset + 4))[3] = ValueHigh
               /\ LastOf(trace) = Wr(SlotOffset + 4, ValueHigh)
        /\ DecodedBefore.kind \in {"Memory32", "Io"} =>
               /\ WritesTo(trace, SlotOffset + 4) = <<>>
               /\ LastOf(trace) = Wr(SlotOffset, ValueLow)
               /\ op.value \cap (32..63) = {}

WriteBarOkWitness ==
    /\ op.name = "write_bar" /\ op.ret.kind = "Ok" /\ op.value = {21, 32}
    /\ op.pre[SlotOffset] = {2, 24} /\ Len(trace) = 10
    /\ regs[SlotOffset] = {2, 21} /\ trace[10] = Wr(SlotOffset + 4, {0})

(***************************************************************************)
(* Further properties of MsiCapability                                     *)
(***************************************************************************)
AddressLow == op.address \cap (0..31)
AddressHigh == {i - 32 : i \in op.address \cap (32..63)}

\* C22: set_message_info writes the low address word at +0x04, then on a
\* 64-bit capability the high address word at +0x08 and the data at +0x0C,
\* on a 32-bit one the data at +0x08; it issues no other access, and every
\* register it did not write, the control dword among them, is as before.
MsiMessageInfoWrites ==
    op.name = "set_message_info" =>
        /\ trace = IF msi.is_64bit
                   THEN <<Wr(msi.offset + 4, AddressLow), Wr(msi.offset + 8, AddressHigh),
                          Wr(msi.offset + 12, op.word)>>
                   ELSE <<Wr(msi.offset + 4, AddressLow), Wr(msi.offset + 8, op.word)>>
        /\ \A o \in MsiRegs \ Touched(trace) : regs[o] = op.pre[o]
        /\ msi.offset \notin Touched(trace)
        /\ ~msi.is_64bit => (msi.offset + 12) \notin Touched(trace)
        /\ regs[msi.offset + 4] = AddressLow
        /\ regs[msi.offset + (IF msi.is_64bit THEN 12 ELSE 8)] = op.word

\* A 32-bit capability: two writes, the data word lands at +0x08.
MsiMessageInfoWitness ==
    /\ op.name = "set_message_info" /\ ~msi.is_64bit /\ Len(trace) = 2
    /\ op.address = {21, 32} /\ op.word = {31}
    /\ regs[MsiOffset + 8] = {31} /\ regs[MsiOffset + 12] = {}

\* The message-control word: bits 16-31 of the dword at the capability offset.
ControlWord(w) == truncate(get_bits(w, 16, 32), 16)

\* C25: is_enabled returns bit 16 of the dword at the capability offset,
\* which is bit 0 of the control word the three fields were decoded from;
\* set_enabled writes the dword it read with bit 16 set to its argument and
\* no other bit changed; where the register stores bit 16, the bit, and so
\* the result of is_enabled, is the argument of the most recent set_enabled,
\* whatever calls came in between.
MsiEnableBitRoundTrip ==
    /\ msi = MsiCapability_new(MsiOffset, ControlWord(regs[MsiOffset]))
    /\ op.name = "is_enabled" =>
           /\ trace = <<Rd(msi.offset, regs[msi.offset])>>
           /\ op.flag = get_bit(ControlWord(regs[msi.offset]), 0)
    /\ op.name = "set_enabled" =>
           /\ Len(trace) = 2
           /\ trace[1] = Rd(msi.offset, op.pre[msi.offset])
           /\ trace[2] = Wr(msi.offset, IF op.flag THEN op.pre[msi.offset] \cup {16}
                                         ELSE op.pre[msi.offset] \ {16})
           /\ \A o \in MsiRegs : regs[o] \ {16} = op.pre[o] \ {16}
    /\ (16 \in wmask[MsiOffset] /\ op.enabled # {}) =>
           /\ op.enabled = {get_bit(regs[MsiOffset], 16)}
           /\ op.name = "is_enabled" => op.enabled = {op.flag}

\* is_enabled after set_enabled(TRUE) and a later
\* set_multiple_message_enable that changed the dword.
MsiEnableBitWitness ==
    /\ op.name = "is_enabled" /\ op.enabled = {TRUE} /\ op.flag
    /\ wmask[MsiOffset] = 0..31 /\ get_bit(regs[MsiOffset], 4)

\* C27, for the MSI mutators: every value written to the first dword of the
\* capability has in bits 0-15 what was read there, and walking the entry
\* again gives the MSI capability with the next pointer it had.
MsiMutatorsKeepChain ==
    /\ WritesTo(trace, MsiOffset) # <<>> =>
           LastOf(WritesTo(trace, MsiOffset))[3] \cap (0..15)
               = ReadsOf(trace, MsiOffset)[1][3] \cap (0..15)
    /\ next_iteration(regs, MsiOffset).cap.kind = "Msi"
    /\ next_iteration(regs, MsiOffset).offset = 0

(***************************************************************************)
(* Further properties of the header type                                   *)
(***************************************************************************)
\* The registers with bit 23 of the dword at 0x0c flipped, and with every
\* bit of it outside bits 16-22 replaced by the bits of w.
FlipMultiFunction(r) ==
    [r EXCEPT ![12] = IF 23 \in r[12] THEN r[12] \ {23} ELSE r[12] \cup {23}]
OutsideReplaced(r, w) == [r EXCEPT ![12] = (r[12] \cap (16..22)) \cup (w \ (16..22))]

\* The header type bits 16-22 stand for.
TypeOf(v) ==
    CASE v = 0 -> [kind |-> "Endpoint"]
      [] v = 1 -> [kind |-> "PciPciBridge"]
      [] v = 2 -> [kind |-> "CardBusBridge"]
      [] OTHER -> [kind |-> "Unknown", t |-> v]

\* C23: header_type returns the type bits 16-22 of the dword at 0x0c stand
\* for, whatever the other 25 bits hold; has_multiple_functions returns
\* bit 23; flipping bit 23 changes the result of has_multiple_functions and
\* of none of header_type and the two from_header functions.
HeaderTypeIgnoresBit23 ==
    /\ op.name = "header_type" =>
           /\ op.ret = TypeOf(TypeField)
           /\ trace = <<Rd(12, regs[12])>>
    /\ op.name = "has_multiple_functions" =>
           /\ op.ret = (23 \in regs[12])
           /\ op.ret = (TypeByte >= 128)
           /\ trace = <<Rd(12, regs[12])>>
    /\ \A w \in HdrOtherBits \cup {{23}, 0..31} :
           header_type(OutsideReplaced(regs, w)) = header_type(regs)
    /\ header_type(FlipMultiFunction(regs)) = header_type(regs)
    /\ EndpointHeader_from_header(FlipMultiFunction(regs)) = EndpointHeader_from_header(regs)
    /\ PciPciBridgeHeader_from_header(FlipMultiFunction(regs))
           = PciPciBridgeHeader_from_header(regs)
    /\ has_multiple_functions(FlipMultiFunction(regs)) # has_multiple_functions(regs)

\* The byte 0x82: a multi-function CardBus bridge.
HeaderTypeWitness ==
    /\ op.name = "header_type" /\ TypeByte = 130
    /\ op.ret = [kind |-> "CardBusBridge"] /\ has_multiple_functions(regs)

(***************************************************************************)
(* Further properties of MsixCapability                                    *)
(***************************************************************************)
\* The write of a setter: the dword it read with the one bit set to the
\* argument, and every register as before but for that bit.
SetsOnly(bit) ==
    /\ trace = <<Rd(MsixOffset, op.pre[MsixOffset]),
                 Wr(MsixOffset, IF op.flag THEN op.pre[MsixOffset] \cup {bit}
                                ELSE op.pre[MsixOffset] \ {bit})>>
    /\ \A o \in MsixRegs : regs[o] \ {bit} = op.pre[o] \ {bit}

\* The result of a query: one read of the control dword, and the bit of it.
ReadsLive(bit) ==
    /\ trace = <<Rd(MsixOffset, regs[MsixOffset])>>
    /\ op.flag = get_bit(regs[MsixOffset], bit)

\* C24: set_enabled changes only bit 31 and set_function_mask only bit 30 of
\* the control dword; enabled and function_mask each read the dword once
\* and return its bit 31 and bit 30; where the register stores the two
\* bits, each is the argument of the most recent call of its own setter,
\* whatever calls of the other setter came after.
MsixControlBits ==
    /\ op.name = "set_enabled" => SetsOnly(31)
    /\ op.name = "set_function_mask" => SetsOnly(30)
    /\ op.name = "enabled" => ReadsLive(31)
    /\ op.name = "function_mask" => ReadsLive(30)
    /\ {30, 31} \subseteq wmask[MsixOffset] =>
           /\ op.set_enabled # {} =>
                  /\ op.set_enabled = {get_bit(regs[MsixOffset], 31)}
                  /\ op.name = "enabled" => op.set_enabled = {op.flag}
           /\ op.set_function_mask # {} =>
                  /\ op.set_function_mask = {get_bit(regs[MsixOffset], 30)}
                  /\ op.name = "function_mask" => op.set_function_mask = {op.flag}

\* function_mask() answers FALSE, the argument of the last
\* set_function_mask, after a set_enabled(TRUE).
MsixControlBitsWitness ==
    /\ op.name = "function_mask" /\ ~op.flag
    /\ op.set_function_mask = {FALSE} /\ op.set_enabled = {TRUE}
    /\ get_bit(regs[MsixOffset], 31) /\ wmask[MsixOffset] = {30, 31}

(***************************************************************************)
(* Properties of MsiCapability::new                                        *)
(***************************************************************************)
\* The number of messages an encoding stands for, out-of-range ones for 1.
MessagesOrOne(enc) == IF enc \in 0..5 THEN 2 ^ enc ELSE 1

\* C26: the MsiCapability constructed from a control word has
\* per_vector_masking = bit 8, is_64bit = bit 7 and, for the encoding in
\* bits 1-3, 1, 2, 4, 8, 16, 32 messages for 0..5 and 1 message for 6 and 7;
\* multiple_message_enable answers in the same way for the encoding it
\* reads back, with 1 message for 6 and 7.
MsiDecode ==
    /\ op.name = "new" =>
           LET control == ControlWord(regs[MsiOffset]) IN
           /\ msi.offset = MsiOffset
           /\ msi.per_vector_masking = (8 \in control)
           /\ msi.is_64bit = (7 \in control)
           /\ msi.multiple_message_capable \in 0..5
           /\ Messages(msi.multiple_message_capable)
                  = MessagesOrOne(ToNat(control \cap (1..3)) \div 2)
           /\ trace = <<Rd(MsiOffset, regs[MsiOffset])>>
    /\ op.name = "multiple_message_enable" =>
           /\ op.ret \in 0..5
           /\ Messages(op.ret) = MessagesOrOne(ToNat(get_bits(regs[MsiOffset], 4, 7)))
           /\ trace = <<Rd(MsiOffset, regs[MsiOffset])>>

\* The readback of a removed device, encoding 7, is answered with Int1 on
\* a capability of 32 messages with both features.
MsiDecodeWitness ==
    /\ op.name = "multiple_message_enable" /\ regs[MsiOffset] = 0..31
    /\ op.ret = 0 /\ msi.multiple_message_capable = 5
    /\ msi.is_64bit /\ msi.per_vector_masking

(***************************************************************************)
(* Properties of capability_pointer and capabilities                       *)
(***************************************************************************)
\* Bit 4 of the status register, the upper half of the dword at 0x04.
ListAnnounced == get_bit(regs[4], 16 + 4)
PointerByte == ToNat(regs[52] \cap (0..7))

\* C28: with status bit 4 clear capability_pointer returns 0 having read
\* the status dword only, and capabilities() and the walk made with it read
\* nothing but the status dword, no entry and not 0x34, yield no item and
\* next() returns None; with the bit set capability_pointer returns the low
\* byte of the dword at 0x34 and the walk starts there.
CapabilityPointerGated ==
    /\ op.name = "capability_pointer" =>
           IF ListAnnounced
           THEN /\ op.ret.value = PointerByte
                /\ trace = <<Rd(4, regs[4]), Rd(52, regs[52])>>
           ELSE /\ op.ret.value = 0
                /\ trace = <<Rd(4, regs[4])>>
    /\ op.name = "capabilities" =>
           iter.start = (IF ListAnnounced THEN PointerByte ELSE 0)
    /\ ~ListAnnounced =>
           /\ iter.offset = 0 /\ iter.start = 0 /\ iter.seen = {}
           /\ yielded = <<>>
           /\ Touched(trace) \subseteq {4}
           /\ (op.name = "next" /\ iter.pc = "idle") => op.ret = None

\* The dword at 0x34 points at 0x40, the status bit is clear: the walk has
\* ended with no item.
CapabilityPointerWitness ==
    /\ ~ListAnnounced /\ PointerByte = 64 /\ EntryId(64) = 17
    /\ op.name = "next" /\ op.ret = None /\ iter.pc = "idle" /\ yielded = <<>>

(***************************************************************************)
(* Further properties of DeviceType::from                                  *)
(***************************************************************************)
\* The variants DeviceType::from returns for some pair.
Returned == {DeviceType_from(base, sub) : base \in BaseClasses, sub \in SubClasses}

\* C29: the variant a call returned is among the variants returned for
\* some (base class, sub class) pair, and these are all the variants of
\* DeviceType other than Unknown.
DeviceTypesAllReturned ==
    op.name = "from" =>
        /\ op.ret \in Returned
        /\ DeviceTypes \ {"Unknown"} \subseteq Returned

====
